---- MODULE Spec2Model ----
(***************************************************************************)
(* Substring machines of MIPT_ALGO: the suffix automaton (SuffixMachine),  *)
(* Ukkonen's suffix tree (SuffixTree) and the RightContextIterator over    *)
(* their finalized vertex collections.                                     *)
(*                                                                         *)
(* Vertices are numbered in creation order; the root of either machine is  *)
(* vertex 1 and 0 stands for a null pointer / an absent map entry.         *)
(* Symbols are the integers 1..NumSymbols (TChar = int in main); a         *)
(* std::map keyed by symbol is a function Symbols -> vertex, iterated in   *)
(* ascending key order.                                                    *)
(***************************************************************************)
EXTENDS Integers, Sequences, FiniteSets

\* Bounds of the model.
MaxLen == 5
NumSymbols == 3
MaxSpin == 2
MaxFile == 4
MaxFaults == 1
\* The size of the three buffers; 4096 in part_002.
BSIZE == 2
MaxThemes == 2
MaxCost == 2
MaxDepends == 2
MaxHeavy == 6
MaxOps == 2

Symbols == 1..NumSymbols
Inputs == UNION {[1..n -> Symbols] : n \in 0..MaxLen}

NullV == 0
EmptyMap == [c \in Symbols |-> NullV]

VARIABLES
    string_,    \* the input sequence both machines are built from
    pc,         \* position of the program
    i,          \* number of symbols the running Build loop has processed
    sm,         \* the SuffixMachine object
    st,         \* the SuffixTree object
    it,         \* a RightContextIterator
    advanced,   \* history: Next() calls since `it` was obtained
    call,       \* the last call on the iterator interface and what it returned
    x,          \* the counter of Assert's loop
    other,      \* a second RightContextIterator, with its own history
    strings,    \* the SuffixMachine of Algo/sem3/Reviews/Strings.cpp
    ds,         \* the digit splitter of part_002: its globals, its files
    fn,         \* run() of Reviews/FlowNetwork.cpp: its input, its locals
    uk,         \* SuffixTree(string) of part_000, call by call
    mn,         \* main() of part_000 and of Strings.cpp: its locals
    cc          \* a caller of the compiler of CAOS/ad1/compiler.c

\* The variables of the other programs of the repository.
beyond == <<strings, ds, fn, uk, mn, cc>>

\* The variables of the parts of the repository that the substring machines
\* of part_000 do not touch.
elsewhere == <<other, beyond>>

vars == <<string_, pc, i, sm, st, it, advanced, call, x, elsewhere>>

----------------------------------------------------------------------------
(* SuffixMachine *)

SM_NewVertex ==
    [edge_char |-> 0, suffix_link |-> NullV, parent |-> NullV, length |-> 0,
     num_of_occurrences |-> 0, next |-> EmptyMap, is_terminal |-> FALSE]

SM_Init ==
    [V |-> <<[SM_NewVertex EXCEPT !.suffix_link = 1]>>,
     root_ |-> 1, last_ |-> 1, vertices_ |-> <<>>]

\* for (; !p->next.count(c); p = p->suffix_link.lock()) p->next.insert({c, v});
RECURSIVE SM_InsertWalk(_, _, _, _)
SM_InsertWalk(m, p, c, v) ==
    IF m.V[p].next[c] = NullV
    THEN SM_InsertWalk([m EXCEPT !.V[p].next[c] = v], m.V[p].suffix_link, c, v)
    ELSE [m |-> m, p |-> p]

\* The transitions into q are left as they are.
SM_Rewire_Skipped(m, p, c, q, clone) == m

\* for (; p->next.at(c) == q; p = p->suffix_link.lock()) p->next.at(c) = clone;
RECURSIVE SM_Rewire(_, _, _, _, _)
SM_Rewire(m, p, c, q, clone) ==
    IF m.V[p].next[c] = q
    THEN SM_Rewire([m EXCEPT !.V[p].next[c] = clone], m.V[p].suffix_link, c, q, clone)
    ELSE m

\* The clone takes the length of q, as an earlier revision of Build did.
SM_CloneLength_OfQ(m, p, q) == m.V[q].length

SM_CloneLength(m, p, q) == m.V[p].length + 1

\* No state passes for the direct continuation of p: every symbol that meets
\* an existing transition makes a clone.
SM_IsNextLength_Never(m, p, q) == FALSE

\* if (q->length == p->length + 1)
SM_IsNextLength(m, p, q) == m.V[q].length = m.V[p].length + 1

\* One iteration of the loop of Build, for symbol c.
SM_Extend(m, c) ==
    LET v == Len(m.V) + 1
        m1 == [m EXCEPT !.V = Append(@, [SM_NewVertex EXCEPT
                                           !.length = m.V[m.last_].length + 1,
                                           !.edge_char = c,
                                           !.parent = m.last_]),
                        !.last_ = v]
        w == SM_InsertWalk(m1, m.last_, c, v)
        m2 == w.m
        p == w.p
        q == m2.V[p].next[c]
    IN  IF q = v
        THEN [m2 EXCEPT !.V[v].suffix_link = m2.root_]
        ELSE IF SM_IsNextLength(m2, p, q)
        THEN [m2 EXCEPT !.V[v].suffix_link = q]
        ELSE LET clone == Len(m2.V) + 1
                 m3 == [m2 EXCEPT !.V = Append(@, [SM_NewVertex EXCEPT
                                           !.suffix_link = m2.V[q].suffix_link,
                                           !.length = SM_CloneLength(m2, p, q),
                                           !.parent = p,
                                           !.edge_char = c,
                                           !.next = m2.V[q].next])]
                 m4 == [m3 EXCEPT !.V[v].suffix_link = clone,
                                  !.V[q].suffix_link = clone]
             IN  SM_Rewire(m4, p, c, q, clone)

\* No state on the suffix-link chain of last_ is marked.
SM_MarkTerminal_Skipped(m, v) == m

\* for (auto v(last_); v != root_; v = v->suffix_link.lock()) v->is_terminal = true;
RECURSIVE SM_MarkTerminal(_, _)
SM_MarkTerminal(m, v) ==
    IF v = m.root_ THEN m
    ELSE SM_MarkTerminal([m EXCEPT !.V[v].is_terminal = TRUE], m.V[v].suffix_link)

\* The root is appended too, as an earlier revision of ProcessVertex did.
SM_Exposed_RootToo(m, vertex) == TRUE

\* Whether ProcessVertex appends this vertex to vertices_.
SM_Exposed(m, vertex) == vertex # m.root_

\* ProcessVertex works on a pair: the machine and the set seen_vertices.
RECURSIVE SM_ProcessVertex(_, _)
RECURSIVE SM_ProcessNext(_, _, _)
SM_ProcessNext(s, vertex, c) ==
    IF c > NumSymbols THEN s
    ELSE LET next_vertex == s.m.V[vertex].next[c]
         IN  IF next_vertex = NullV
             THEN SM_ProcessNext(s, vertex, c + 1)
             ELSE LET s1 == SM_ProcessVertex(s, next_vertex)
                      s2 == [s1 EXCEPT !.m.V[vertex].num_of_occurrences =
                                         @ + s1.m.V[next_vertex].num_of_occurrences]
                  IN  SM_ProcessNext(s2, vertex, c + 1)

SM_ProcessVertex(s, vertex) ==
    IF vertex \in s.seen THEN s
    ELSE LET s1 == [m |-> [s.m EXCEPT !.V[vertex].num_of_occurrences =
                                   IF s.m.V[vertex].is_terminal THEN 1 ELSE 0],
                    seen |-> s.seen \cup {vertex}]
             s2 == SM_ProcessNext(s1, vertex, 1)
         IN  IF SM_Exposed(s2.m, vertex)
             THEN [s2 EXCEPT !.m.vertices_ = Append(@, vertex)]
             ELSE s2

SM_Finally(m) ==
    LET m1 == [m EXCEPT !.V[m.root_].is_terminal = TRUE]
        m2 == SM_MarkTerminal(m1, m1.last_)
    IN  SM_ProcessVertex([m |-> m2, seen |-> {}], m2.root_).m

\* Vertex::GetString: edge_char of the vertex, then of its parents up to the
\* root, reversed.
RECURSIVE SM_ParentChars(_, _)
SM_ParentChars(m, vertex) ==
    IF m.V[vertex].parent = NullV THEN <<>>
    ELSE Append(SM_ParentChars(m, m.V[vertex].parent), m.V[vertex].edge_char)

SM_GetString(m, vertex) ==
    Append(SM_ParentChars(m, m.V[vertex].parent), m.V[vertex].edge_char)

SM_GetMaximalLength(m, vertex) == m.V[vertex].length

SM_GetNumOfOccurrences(m, vertex) == m.V[vertex].num_of_occurrences

----------------------------------------------------------------------------
(* SuffixTree *)

ST_NewVertex ==
    [children |-> EmptyMap, is_terminal |-> FALSE, num_of_occurrences |-> 0,
     distance_from_root |-> 0, left_bound |-> 0, right_bound |-> 0,
     parent |-> NullV, suffix_link |-> NullV]

\* Position{vertex}: at the vertex itself.
Position(vertex) == [down_vertex |-> vertex, distance_from_down_vertex |-> 0]

\* The constructor's member initializers followed by Init().
ST_Init(string) ==
    [INFINITY |-> Len(string), string_ |-> string, V |-> <<ST_NewVertex>>,
     root_ |-> 1, last_not_leaf_ |-> Position(1), vertices_ |-> <<>>]

\* string->at(k), indices from 0.
ST_At(t, k) == t.string_[k + 1]

ST_GetChar(t, v, distance_from_this) ==
    ST_At(t, t.V[v].right_bound - distance_from_this)

ST_Length(t, v) == t.V[v].right_bound - t.V[v].left_bound

ST_FirstChar(t, v) == ST_At(t, t.V[v].left_bound)

ST_IsLeaf(t, v) == \A c \in Symbols : t.V[v].children[c] = NullV

IsVertex(pos) == pos.distance_from_down_vertex = 0

CanGo(t, pos, c) ==
    IF IsVertex(pos)
    THEN t.V[pos.down_vertex].children[c] # NullV
    ELSE c = ST_GetChar(t, pos.down_vertex, pos.distance_from_down_vertex)

\* OneStepDown stepping from a vertex onto the child itself.
OneStepDown_OntoChild(t, pos, c) ==
    IF IsVertex(pos)
    THEN [down_vertex |-> t.V[pos.down_vertex].children[c],
          distance_from_down_vertex |-> 0]
    ELSE [pos EXCEPT !.distance_from_down_vertex = @ - 1]

OneStepDown(t, pos, c) ==
    IF IsVertex(pos)
    THEN LET child == t.V[pos.down_vertex].children[c]
         IN  [down_vertex |-> child,
              distance_from_down_vertex |-> ST_Length(t, child) - 1]
    ELSE [pos EXCEPT !.distance_from_down_vertex = @ - 1]

RECURSIVE Go(_, _, _, _)
Go(t, pos, l, r) ==
    IF l < r
    THEN IF IsVertex(pos)
         THEN LET child == t.V[pos.down_vertex].children[ST_At(t, l)]
              IN  Go(t, [down_vertex |-> child,
                         distance_from_down_vertex |-> ST_Length(t, child)], l, r)
         ELSE IF r - l > pos.distance_from_down_vertex
         THEN Go(t, [pos EXCEPT !.distance_from_down_vertex = 0],
                 l + pos.distance_from_down_vertex, r)
         ELSE Go(t, [pos EXCEPT !.distance_from_down_vertex = @ - (r - l)], r, r)
    ELSE pos

\* The bound at which SplitEdge cuts the edge of v.
ST_SplitBound(t, pos) ==
    t.V[pos.down_vertex].right_bound - pos.distance_from_down_vertex

\* SplitEdge returns the tree and the vertex at the position.
RECURSIVE SplitEdge(_, _)
RECURSIVE BuildSuffixLink(_, _)
SplitEdge(t, pos) ==
    IF IsVertex(pos)
    THEN [t |-> t, v |-> pos.down_vertex]
    ELSE LET v == pos.down_vertex
             u == t.V[v].parent
             new_v == Len(t.V) + 1
             split == ST_SplitBound(t, pos)
             t1 == [t EXCEPT !.V = Append(@, [ST_NewVertex EXCEPT
                                        !.parent = u,
                                        !.left_bound = t.V[v].left_bound,
                                        !.right_bound = split])]
             t2 == [t1 EXCEPT !.V[u].children[ST_FirstChar(t, v)] = new_v,
                              !.V[v].left_bound = split,
                              !.V[v].parent = new_v]
             t3 == [t2 EXCEPT !.V[new_v].children[ST_FirstChar(t2, v)] = v]
         IN  [t |-> BuildSuffixLink(t3, new_v), v |-> new_v]

BuildSuffixLink(t, vertex) ==
    LET p == t.V[vertex].parent
        from == IF p = t.root_
                THEN Go(t, Position(t.root_),
                        t.V[vertex].left_bound + 1, t.V[vertex].right_bound)
                ELSE Go(t, Position(t.V[p].suffix_link),
                        t.V[vertex].left_bound, t.V[vertex].right_bound)
        s == SplitEdge(t, from)
    IN  [s.t EXCEPT !.V[vertex].suffix_link = s.v]

\* children.insert keeps an entry that is already there.
MakeLeaf(t, vertex, position) ==
    LET leaf == Len(t.V) + 1
        t1 == [t EXCEPT !.V = Append(@, [ST_NewVertex EXCEPT
                                        !.left_bound = position,
                                        !.right_bound = t.INFINITY,
                                        !.parent = vertex,
                                        !.is_terminal = TRUE])]
        c == ST_FirstChar(t1, leaf)
    IN  IF t1.V[vertex].children[c] = NullV
        THEN [t1 EXCEPT !.V[vertex].children[c] = leaf]
        ELSE t1

\* The while (true) loop of Build for the symbol at index k.
RECURSIVE ST_Extend(_, _)
ST_Extend(t, k) ==
    LET c == ST_At(t, k)
    IN  IF CanGo(t, t.last_not_leaf_, c)
        THEN [t EXCEPT !.last_not_leaf_ = OneStepDown(t, t.last_not_leaf_, c)]
        ELSE LET s == SplitEdge(t, t.last_not_leaf_)
                 t1 == MakeLeaf(s.t, s.v, k)
             IN  IF s.v = t1.root_
                 THEN t1
                 ELSE ST_Extend([t1 EXCEPT !.last_not_leaf_ =
                                     Position(t1.V[s.v].suffix_link)], k)

\* Whether ProcessVertex appends this vertex to vertices_.
ST_Exposed(t, vertex) == vertex # t.root_

RECURSIVE ST_ProcessVertex(_, _)
RECURSIVE ST_ProcessChildren(_, _, _)
\* The children are processed, their counts are not added to the vertex.
ST_ProcessChildren_NotSummed(t, vertex, c) ==
    IF c > NumSymbols THEN t
    ELSE LET child == t.V[vertex].children[c]
         IN  IF child = NullV
             THEN ST_ProcessChildren(t, vertex, c + 1)
             ELSE ST_ProcessChildren(ST_ProcessVertex(t, child), vertex, c + 1)

ST_ProcessChildren(t, vertex, c) ==
    IF c > NumSymbols THEN t
    ELSE LET child == t.V[vertex].children[c]
         IN  IF child = NullV
             THEN ST_ProcessChildren(t, vertex, c + 1)
             ELSE LET t1 == ST_ProcessVertex(t, child)
                      t2 == [t1 EXCEPT !.V[vertex].num_of_occurrences =
                                         @ + t1.V[child].num_of_occurrences]
                  IN  ST_ProcessChildren(t2, vertex, c + 1)

ST_ProcessVertex(t, vertex) ==
    LET t1 == IF ST_Exposed(t, vertex)
              THEN [t EXCEPT !.V[vertex].distance_from_root =
                                 ST_Length(t, vertex)
                                 + t.V[t.V[vertex].parent].distance_from_root,
                             !.vertices_ = Append(@, vertex)]
              ELSE [t EXCEPT !.V[vertex].distance_from_root = 0]
        t2 == [t1 EXCEPT !.V[vertex].num_of_occurrences =
                             IF t1.V[vertex].is_terminal THEN 1 ELSE 0]
    IN  ST_ProcessChildren(t2, vertex, 1)

\* No vertex on the suffix-link chain of the active point is marked.
ST_MarkTerminal_Skipped(t, v) == t

\* for (auto v(SplitEdge(..)); v != root_; v = v->suffix_link.lock()) v->is_terminal = true;
RECURSIVE ST_MarkTerminal(_, _)
ST_MarkTerminal(t, v) ==
    IF v = t.root_ THEN t
    ELSE ST_MarkTerminal([t EXCEPT !.V[v].is_terminal = TRUE], t.V[v].suffix_link)

ST_Finally(t) ==
    LET s == SplitEdge(t, t.last_not_leaf_)
    IN  ST_ProcessVertex(ST_MarkTerminal(s.t, s.v), s.t.root_)

\* string->substr(left_bound, right_bound - left_bound)
ST_EdgeLabel(t, v) == SubSeq(t.string_, t.V[v].left_bound + 1, t.V[v].right_bound)

\* Vertex::GetString: the edge labels from the root down to the vertex.
RECURSIVE ST_PathLabel(_, _)
ST_PathLabel(t, v) ==
    IF t.V[v].parent = NullV THEN <<>>
    ELSE ST_PathLabel(t, t.V[v].parent) \o ST_EdgeLabel(t, v)

ST_GetString(t, vertex) ==
    ST_PathLabel(t, t.V[vertex].parent) \o ST_EdgeLabel(t, vertex)

ST_GetMaximalLength(t, vertex) == t.V[vertex].distance_from_root

ST_GetNumOfOccurrences(t, vertex) == t.V[vertex].num_of_occurrences

\* Build(): the loop over the symbols of string_, from index k on.
RECURSIVE ST_Build(_, _)
ST_Build(t, k) ==
    IF k < Len(t.string_) THEN ST_Build(ST_Extend(t, k), k + 1) ELSE t

\* SuffixTree(string): Init(); Build(); Finally();
ST_Construct(string) == ST_Finally(ST_Build(ST_Init(string), 0))

----------------------------------------------------------------------------
(* SuffixTree(string) of part_000 call by call: Build and Finally with every *)
(* call of SplitEdge, the nested ones from BuildSuffixLink included, entered *)
(* and returned from in steps of their own.  stack holds the calls of        *)
(* SplitEdge that have not returned, the innermost last; each remembers the  *)
(* tree it was called on.                                                    *)

\* SplitEdge leaving new_v without its child.
ST_Cut_Childless(t, pos) ==
    LET v == pos.down_vertex
        u == t.V[v].parent
        new_v == Len(t.V) + 1
        split == ST_SplitBound(t, pos)
        t1 == [t EXCEPT !.V = Append(@, [ST_NewVertex EXCEPT
                                   !.parent = u,
                                   !.left_bound = t.V[v].left_bound,
                                   !.right_bound = split])]
    IN  [t |-> [t1 EXCEPT !.V[u].children[ST_FirstChar(t, v)] = new_v,
                          !.V[v].left_bound = split,
                          !.V[v].parent = new_v],
         v |-> new_v]

\* SplitEdge at a position inside an edge, up to the call of BuildSuffixLink:
\* the tree and new_v.
ST_Cut(t, pos) ==
    LET v == pos.down_vertex
        u == t.V[v].parent
        new_v == Len(t.V) + 1
        split == ST_SplitBound(t, pos)
        t1 == [t EXCEPT !.V = Append(@, [ST_NewVertex EXCEPT
                                   !.parent = u,
                                   !.left_bound = t.V[v].left_bound,
                                   !.right_bound = split])]
        t2 == [t1 EXCEPT !.V[u].children[ST_FirstChar(t, v)] = new_v,
                         !.V[v].left_bound = split,
                         !.V[v].parent = new_v]
    IN  [t |-> [t2 EXCEPT !.V[new_v].children[ST_FirstChar(t2, v)] = v],
         v |-> new_v]

\* BuildSuffixLink descending from the root along the whole edge range.
ST_LinkFrom_Unshifted(t, vertex) ==
    IF t.V[vertex].parent = t.root_
    THEN Go(t, Position(t.root_),
            t.V[vertex].left_bound, t.V[vertex].right_bound)
    ELSE Go(t, Position(t.V[t.V[vertex].parent].suffix_link),
            t.V[vertex].left_bound, t.V[vertex].right_bound)

\* The position BuildSuffixLink(vertex) hands to SplitEdge.
ST_LinkFrom(t, vertex) ==
    IF t.V[vertex].parent = t.root_
    THEN Go(t, Position(t.root_),
            t.V[vertex].left_bound + 1, t.V[vertex].right_bound)
    ELSE Go(t, Position(t.V[t.V[vertex].parent].suffix_link),
            t.V[vertex].left_bound, t.V[vertex].right_bound)

\* A call of SplitEdge(pos) on tree t by the given caller; new_v is set once
\* the call has made its vertex.
UK_Call(t, pos, caller) ==
    [pre |-> t, pos |-> pos, new_v |-> NullV, caller |-> caller]

\* No call of SplitEdge has returned yet.
UK_NoCall == [returned |-> FALSE]

\* The constructor after Init().
UK_Start(string) ==
    [pc |-> "Build", t |-> ST_Init(string), i |-> 0, inner |-> FALSE,
     stack |-> <<>>, ret |-> NullV, last |-> UK_NoCall]

----------------------------------------------------------------------------
(* RightContextIterator *)

Machines == {"SuffixMachine", "SuffixTree"}

\* GetVertices of the machine an iterator's vertices_ points into.
GetVertices(machine) ==
    IF machine = "SuffixMachine" THEN sm.vertices_ ELSE st.vertices_

\* RightContextIterator() = default: vertices_ = nullptr, index_ = 0.
DefaultIterator == [vertices_ |-> "nullptr", index_ |-> 0]

GetRightContextIterator(machine) == [vertices_ |-> machine, index_ |-> 0]

\* index_ <= size instead of index_ < size.
Valid_Inclusive(iter) ==
    /\ iter.vertices_ # "nullptr"
    /\ iter.index_ <= Len(GetVertices(iter.vertices_))

Valid(iter) ==
    /\ iter.vertices_ # "nullptr"
    /\ iter.index_ < Len(GetVertices(iter.vertices_))

\* The copy is returned without the increment.
Next_NotAdvanced(iter) == iter

\* The copy Next() returns; the receiver is not changed.
Next(iter) == [iter EXCEPT !.index_ = @ + 1]

\* vertices_->at(index_)
CurrentVertex(iter) == GetVertices(iter.vertices_)[iter.index_ + 1]

GetStateString(iter) ==
    IF iter.vertices_ = "SuffixMachine"
    THEN SM_GetString(sm, CurrentVertex(iter))
    ELSE ST_GetString(st, CurrentVertex(iter))

GetMaximalLength(iter) ==
    IF iter.vertices_ = "SuffixMachine"
    THEN SM_GetMaximalLength(sm, CurrentVertex(iter))
    ELSE ST_GetMaximalLength(st, CurrentVertex(iter))

GetNumOfOccurrences(iter) ==
    IF iter.vertices_ = "SuffixMachine"
    THEN SM_GetNumOfOccurrences(sm, CurrentVertex(iter))
    ELSE ST_GetNumOfOccurrences(st, CurrentVertex(iter))

----------------------------------------------------------------------------
(* The SuffixMachine of Algo/sem3/Reviews/Strings.cpp, an earlier revision of
   the one in part_000. Init, the two walks along the suffix links and the
   marking of the terminal states are the same text in both revisions. *)

\* clone->length = q->length;
Strings_CloneLength(m, p, q) == m.V[q].length

\* One iteration of the loop of Build, for symbol c.
Strings_Extend(m, c) ==
    LET v == Len(m.V) + 1
        m1 == [m EXCEPT !.V = Append(@, [SM_NewVertex EXCEPT
                                           !.length = m.V[m.last_].length + 1,
                                           !.edge_char = c,
                                           !.parent = m.last_]),
                        !.last_ = v]
        w == SM_InsertWalk(m1, m.last_, c, v)
        m2 == w.m
        p == w.p
        q == m2.V[p].next[c]
    IN  IF q = v
        THEN [m2 EXCEPT !.V[v].suffix_link = m2.root_]
        ELSE IF SM_IsNextLength(m2, p, q)
        THEN [m2 EXCEPT !.V[v].suffix_link = q]
        ELSE LET clone == Len(m2.V) + 1
                 m3 == [m2 EXCEPT !.V = Append(@, [SM_NewVertex EXCEPT
                                           !.suffix_link = m2.V[q].suffix_link,
                                           !.length = Strings_CloneLength(m2, p, q),
                                           !.parent = p,
                                           !.edge_char = c,
                                           !.next = m2.V[q].next])]
                 m4 == [m3 EXCEPT !.V[v].suffix_link = clone,
                                  !.V[q].suffix_link = clone]
             IN  SM_Rewire(m4, p, c, q, clone)

\* ProcessVertex ends with vertices_->push_back(vertex) for every vertex.
Strings_Exposed(m, vertex) == TRUE

RECURSIVE Strings_ProcessVertex(_, _)
RECURSIVE Strings_ProcessNext(_, _, _)
Strings_ProcessNext(s, vertex, c) ==
    IF c > NumSymbols THEN s
    ELSE LET next_vertex == s.m.V[vertex].next[c]
         IN  IF next_vertex = NullV
             THEN Strings_ProcessNext(s, vertex, c + 1)
             ELSE LET s1 == Strings_ProcessVertex(s, next_vertex)
                      s2 == [s1 EXCEPT !.m.V[vertex].num_of_occurrences =
                                         @ + s1.m.V[next_vertex].num_of_occurrences]
                  IN  Strings_ProcessNext(s2, vertex, c + 1)

Strings_ProcessVertex(s, vertex) ==
    IF vertex \in s.seen THEN s
    ELSE LET s1 == [m |-> [s.m EXCEPT !.V[vertex].num_of_occurrences =
                                   IF s.m.V[vertex].is_terminal THEN 1 ELSE 0],
                    seen |-> s.seen \cup {vertex}]
             s2 == Strings_ProcessNext(s1, vertex, 1)
         IN  IF Strings_Exposed(s2.m, vertex)
             THEN [s2 EXCEPT !.m.vertices_ = Append(@, vertex)]
             ELSE s2

Strings_Finally(m) ==
    LET m1 == [m EXCEPT !.V[m.root_].is_terminal = TRUE]
        m2 == SM_MarkTerminal(m1, m1.last_)
    IN  Strings_ProcessVertex([m |-> m2, seen |-> {}], m2.root_).m

\* The program of Strings.cpp when main has read the input: the constructor
\* of its SuffixMachine has run Init and is about to run Build.
Strings_Start == [pc |-> "Build", i |-> 0, m |-> SM_Init]

----------------------------------------------------------------------------
(* The digit splitter of part_002: reads the first file through a buffer of  *)
(* BSIZE bytes and writes its digits to the second file and every other      *)
(* byte to the third, each through a buffer of BSIZE bytes.  Bytes are       *)
(* their character codes.  The process starts with descriptors 0, 1 and 2    *)
(* open, so the three files get the descriptors 3, 4 and 5.  What open,      *)
(* malloc, read and write return is chosen by the environment.               *)

\* The slash, '0', '9' and the colon: the digits at both ends of the range
\* and their neighbours.
SampleBytes == {47, 48, 57, 58}
Files == UNION {[1..n -> SampleBytes] : n \in 0..MaxFile}

Min(a, b) == IF a < b THEN a ELSE b

\* the globals input, digit_output, other_output: zero-initialized
DS_Start(f) ==
    [pc |-> "init_program", code |-> 0, file |-> f, fpos |-> 0,
     input |-> [fd_ |-> 0, size_ |-> 0, current_pos_ |-> 0,
                buff_ |-> <<>>, has_buff |-> FALSE],
     digit_output |-> [fd_ |-> 0, size_ |-> 0, buff_ |-> <<>>, has_buff |-> FALSE],
     other_output |-> [fd_ |-> 0, size_ |-> 0, buff_ |-> <<>>, has_buff |-> FALSE],
     written |-> [fd \in {4, 5} |-> <<>>],
     closed |-> <<>>, freed |-> <<>>, opened |-> {}, failed |-> {},
     faults |-> 0]

\* A call of clean_up_and_exit(ret_code) is entered.
DS_Enter(d, ret_code, what) ==
    [d EXCEPT !.pc = "clean_up_and_exit", !.code = ret_code,
              !.failed = @ \cup what,
              !.faults = IF what = {} THEN @ ELSE @ + 1]

\* init_ifstream; a failure leaves in what the call of clean_up_and_exit.
init_ifstream(d, fd, opens, mallocs) ==
    IF ~opens
    THEN DS_Enter([d EXCEPT !.input.fd_ = -1, !.input.has_buff = FALSE],
                  1, {"open"})
    ELSE IF ~mallocs
    THEN DS_Enter([d EXCEPT !.input.fd_ = fd, !.input.has_buff = FALSE,
                            !.opened = @ \cup {fd},
                            !.closed = Append(@, fd)],
                  3, {"malloc"})
    ELSE [d EXCEPT !.input = [fd_ |-> fd, size_ |-> 0, current_pos_ |-> 0,
                              buff_ |-> <<>>, has_buff |-> TRUE],
                   !.opened = @ \cup {fd}]

init_ofstream(d, name, fd, opens, mallocs) ==
    IF ~opens
    THEN DS_Enter([d EXCEPT ![name].fd_ = -1, ![name].has_buff = FALSE],
                  2, {"open"})
    ELSE IF ~mallocs
    THEN DS_Enter([d EXCEPT ![name].fd_ = fd, ![name].has_buff = FALSE,
                            !.opened = @ \cup {fd},
                            !.closed = Append(@, fd)],
                  3, {"malloc"})
    ELSE [d EXCEPT ![name] = [fd_ |-> fd, size_ |-> 0, buff_ |-> <<>>,
                              has_buff |-> TRUE],
                   !.opened = @ \cup {fd}]

\* init_program: env says for each of the three streams whether its open and
\* its malloc succeed.
init_program(d, env) ==
    LET d1 == init_ifstream(d, 3, env[1].opens, env[1].mallocs)
        d2 == IF d1.pc = "clean_up_and_exit" THEN d1
              ELSE init_ofstream(d1, "digit_output", 4, env[2].opens, env[2].mallocs)
        d3 == IF d2.pc = "clean_up_and_exit" THEN d2
              ELSE init_ofstream(d2, "other_output", 5, env[3].opens, env[3].mallocs)
    IN  IF d3.pc = "clean_up_and_exit" THEN d3
        ELSE [d3 EXCEPT !.pc = "run_program"]

release_ifstream(d) ==
    LET d1 == IF d.input.fd_ >= 0
              THEN [d EXCEPT !.closed = Append(@, d.input.fd_)]
              ELSE d
    IN  IF d1.input.has_buff
        THEN [d1 EXCEPT !.freed = Append(@, "input")]
        ELSE d1

\* The loop of flush_ofstream: write accepts at most k bytes at a time.
RECURSIVE DS_WriteLoop(_, _, _, _)
DS_WriteLoop(d, name, writen, k) ==
    IF writen = d[name].size_ THEN d
    ELSE LET writen_char == Min(k, d[name].size_ - writen)
         IN  DS_WriteLoop(
                 [d EXCEPT !.written[d[name].fd_] =
                             @ \o SubSeq(d[name].buff_, writen + 1,
                                         writen + writen_char)],
                 name, writen + writen_char, k)

\* flush_ofstream when no write fails.
flush_ofstream(d, name, k) ==
    IF d[name].size_ > 0
    THEN [DS_WriteLoop(d, name, 0, k) EXCEPT ![name].size_ = 0,
                                            ![name].buff_ = <<>>]
    ELSE d

\* Whether flush_ofstream calls write at all.
DS_Writes(d, name) == d[name].size_ > 0

\* write_char; fails says that the write of the flush returns -1.
write_char(d, name, ch, k, fails) ==
    IF d[name].size_ = BSIZE /\ fails
    THEN DS_Enter(d, 2, {"write"})
    ELSE LET d1 == IF d[name].size_ = BSIZE THEN flush_ofstream(d, name, k) ELSE d
         IN  [d1 EXCEPT ![name].buff_ = Append(@, ch), ![name].size_ = @ + 1]

\* The buffer is freed and the descriptor closed with what the buffer holds
\* never written.
release_ofstream_NoFlush(d, name, k, fails) ==
    LET d2 == IF d[name].fd_ # -1
              THEN [d EXCEPT !.closed = Append(@, d[name].fd_)]
              ELSE d
    IN  IF d2[name].has_buff
        THEN [d2 EXCEPT !.freed = Append(@, name)]
        ELSE d2

\* release_ofstream; fails says that the write of the flush returns -1, which
\* enters clean_up_and_exit(2) from inside this call.
release_ofstream(d, name, k, fails) ==
    IF d[name].fd_ # -1 /\ d[name].has_buff /\ DS_Writes(d, name) /\ fails
    THEN DS_Enter(d, 2, {"write"})
    ELSE LET d1 == IF d[name].fd_ # -1 /\ d[name].has_buff
                   THEN flush_ofstream(d, name, k)
                   ELSE d
             d2 == IF d1[name].fd_ # -1
                   THEN [d1 EXCEPT !.closed = Append(@, d1[name].fd_)]
                   ELSE d1
         IN  IF d2[name].has_buff
             THEN [d2 EXCEPT !.freed = Append(@, name)]
             ELSE d2

\* clean_up_and_exit(d.code); a failing write inside it enters it again and
\* that call is the one that exits.
clean_up_and_exit(d, k, fails2, fails3) ==
    LET d0 == [d EXCEPT !.pc = "releasing"]
        d1 == release_ifstream(d0)
        d2 == release_ofstream(d1, "digit_output", k, fails2)
        d3 == IF d2.pc = "clean_up_and_exit" THEN d2
              ELSE release_ofstream(d2, "other_output", k, fails3)
    IN  IF d3.pc = "clean_up_and_exit" THEN d3
        ELSE [d3 EXCEPT !.pc = "exited"]

\* '0' <= c && c <= '9'
IsDigit(c) == 48 <= c /\ c <= 57

\* What read may return when eof calls it: -1, 0 at the end of the file, and
\* otherwise the number of bytes it delivers, at least one and at most BSIZE.
DS_ReadReturns(d) ==
    {-1} \cup (IF d.fpos = Len(d.file) THEN {0}
               ELSE 1..Min(BSIZE, Len(d.file) - d.fpos))

\* One turn of the loop of run_program: eof, which calls read when the buffer
\* is used up, then read_char and write_char; when eof returns true main goes
\* on to clean_up_and_exit(0).
run_program(d, read_chars, k, fails) ==
    LET refill == d.input.current_pos_ = d.input.size_
    IN  IF refill /\ read_chars = -1
        THEN DS_Enter(d, 3, {"read"})
        ELSE IF refill /\ read_chars = 0
        THEN DS_Enter(d, 0, {})
        ELSE LET d1 == IF refill
                       THEN [d EXCEPT !.input.buff_ =
                                        SubSeq(d.file, d.fpos + 1, d.fpos + read_chars),
                                      !.input.size_ = read_chars,
                                      !.input.current_pos_ = 0,
                                      !.fpos = @ + read_chars]
                       ELSE d
                 c == d1.input.buff_[d1.input.current_pos_ + 1]
                 d2 == [d1 EXCEPT !.input.current_pos_ = @ + 1]
             IN  IF IsDigit(c)
                 THEN write_char(d2, "digit_output", c, k, fails)
                 ELSE write_char(d2, "other_output", c, k, fails)

----------------------------------------------------------------------------
(* Reviews/FlowNetwork.cpp: Network, the two maximum-flow algorithms        *)
(* PreflowPushAlgorithm and MalhotraKumarMaheshwari, and solution(), which   *)
(* builds the network of an InputData and runs one of them on it.  Vertices  *)
(* are 0..size-1; the edge with id e is edges_[e + 1]; an edge list view is  *)
(* the id its start iterator stands at (its end is NONE).                    *)

NONE == -1
INF == 1000000

\* Network(N, source, sink)
Network(N, source, sink) ==
    [lastEdge_ |-> [v \in 0..(N - 1) |-> NONE], previousEdge_ |-> <<>>,
     edges_ |-> <<>>, source_ |-> source, sink_ |-> sink]

insertEdgeImpl(net, startVertex, finishVertex, capacity) ==
    [net EXCEPT !.previousEdge_ = Append(@, net.lastEdge_[startVertex]),
                !.lastEdge_[startVertex] = Len(net.edges_),
                !.edges_ = Append(@, [startVertex_ |-> startVertex,
                                      finishVertex_ |-> finishVertex,
                                      capacity_ |-> capacity,
                                      flow_ |-> 0])]

\* insertEdge with isDirected = true
insertEdge(net, startVertex, finishVertex, capacity) ==
    insertEdgeImpl(insertEdgeImpl(net, startVertex, finishVertex, capacity),
                   finishVertex, startVertex, 0)

\* edgeId ^ 1
Xor1(edgeId) == IF edgeId % 2 = 0 THEN edgeId + 1 ELSE edgeId - 1

\* edges_->at(edgeId)
EdgeAt(net, edgeId) == net.edges_[edgeId + 1]

residualCapacity(edge) == edge.capacity_ - edge.flow_

goThroughEdge(edge, fromVertex) ==
    IF edge.startVertex_ = fromVertex THEN edge.finishVertex_
    ELSE edge.startVertex_

\* EdgeIteratorImpl<isBackEdgeIterator>::getEdgeId
getEdgeId(edgeId, isBackEdgeIterator) ==
    IF isBackEdgeIterator THEN Xor1(edgeId) ELSE edgeId

\* EdgeIteratorImpl::operator*
getEdge(net, edgeId, isBackEdgeIterator) ==
    EdgeAt(net, getEdgeId(edgeId, isBackEdgeIterator))

\* EdgeIteratorImpl::operator++, view_t::popLastEdge
NextEdge(net, edgeId) == net.previousEdge_[edgeId + 1]

\* EdgeIteratorImpl::pushFlow
Edge_pushFlow(net, edgeId, isBackEdgeIterator, flow) ==
    LET e == getEdgeId(edgeId, isBackEdgeIterator)
    IN  [net EXCEPT !.edges_[e + 1].flow_ = @ + flow,
                    !.edges_[Xor1(e) + 1].flow_ = @ - flow]

\* Network::clear
Network_clear(net) ==
    [net EXCEPT !.edges_ =
        [j \in 1..Len(net.edges_) |-> [net.edges_[j] EXCEPT !.flow_ = 0]]]

Network_size(net) == Cardinality(DOMAIN net.lastEdge_)

Vertices(size) == 0..(size - 1)

(* PreflowPushAlgorithm *)

PPA_pushFlowImpl(P, edgeId, flow) ==
    LET edge == EdgeAt(P.network_, edgeId)
    IN  [P EXCEPT !.network_ = Edge_pushFlow(@, edgeId, FALSE, flow),
                  !.overage_[edge.startVertex_] = @ - flow,
                  !.overage_[edge.finishVertex_] = @ + flow]

\* The loop of prepare over vertexEdgeList(source).
RECURSIVE PPA_Saturate(_, _)
PPA_Saturate(P, edgeId) ==
    IF edgeId = NONE THEN P
    ELSE PPA_Saturate(
             PPA_pushFlowImpl(P, edgeId, EdgeAt(P.network_, edgeId).capacity_),
             NextEdge(P.network_, edgeId))

PPA_prepare(P) ==
    LET source == P.network_.source_
        P1 == [P EXCEPT !.height_ = [v \in Vertices(P.size_) |->
                                       IF v = source THEN P.size_ ELSE 0],
                        !.overage_ = [v \in Vertices(P.size_) |-> 0]]
        P2 == PPA_Saturate(P1, P1.network_.lastEdge_[source])
    IN  [P2 EXCEPT !.edgeLists_ = [v \in Vertices(P.size_) |->
                                     P2.network_.lastEdge_[v]]]

PPA_push(P, edgeId) ==
    LET edge == EdgeAt(P.network_, edgeId)
    IN  PPA_pushFlowImpl(P, edgeId,
            Min(P.overage_[edge.startVertex_], residualCapacity(edge)))

\* The loop of relabel.
RECURSIVE PPA_MinHeight(_, _, _)
PPA_MinHeight(P, edgeId, newHeight) ==
    IF edgeId = NONE THEN newHeight
    ELSE LET edge == EdgeAt(P.network_, edgeId)
         IN  PPA_MinHeight(P, NextEdge(P.network_, edgeId),
                 IF residualCapacity(edge) > 0
                 THEN Min(newHeight, P.height_[edge.finishVertex_])
                 ELSE newHeight)

PPA_relabel(P, vertex) ==
    [P EXCEPT !.height_[vertex] =
        PPA_MinHeight(P, P.network_.lastEdge_[vertex], INF) + 1]

\* discharge: the loop while (overage_.at(vertex) > 0).
RECURSIVE PPA_discharge(_, _)
PPA_discharge(P, vertex) ==
    IF P.overage_[vertex] <= 0 THEN P
    ELSE LET edges == P.edgeLists_[vertex]
         IN  IF edges = NONE
             THEN PPA_discharge(
                      PPA_relabel([P EXCEPT !.edgeLists_[vertex] =
                                      P.network_.lastEdge_[vertex]], vertex),
                      vertex)
             ELSE IF /\ residualCapacity(EdgeAt(P.network_, edges)) > 0
                     /\ P.height_[EdgeAt(P.network_, edges).finishVertex_] + 1
                          = P.height_[vertex]
             THEN PPA_discharge(PPA_push(P, edges), vertex)
             ELSE PPA_discharge([P EXCEPT !.edgeLists_[vertex] =
                                    NextEdge(P.network_, edges)], vertex)

\* The for loop of run: canDoPushOrRelabel |= discharge(vertex).
RECURSIVE PPA_Round(_, _, _)
PPA_Round(P, vertex, canDoPushOrRelabel) ==
    IF vertex >= P.size_ THEN [P |-> P, can |-> canDoPushOrRelabel]
    ELSE IF vertex # P.network_.source_ /\ vertex # P.network_.sink_
    THEN PPA_Round(PPA_discharge(P, vertex), vertex + 1,
                   canDoPushOrRelabel \/ P.overage_[vertex] > 0)
    ELSE PPA_Round(P, vertex + 1, canDoPushOrRelabel)

\* The do ... while (canDoPushOrRelabel) loop of run.
RECURSIVE PPA_Rounds(_)
PPA_Rounds(P) ==
    LET r == PPA_Round(P, 0, FALSE)
    IN  IF r.can THEN PPA_Rounds(r.P) ELSE r.P

\* FlowFindingAlgorithm::reset
FFA_reset(A) == [A EXCEPT !.network_ = Network_clear(@), !.result_ = 0]

checkNetwork(A) == A.networkLoaded_

\* storeNetwork: the network is moved out, which leaves the vectors of
\* network_ empty.
FFA_storeNetwork(A) ==
    [A EXCEPT !.network_ = [@ EXCEPT !.lastEdge_ = <<>>,
                                     !.previousEdge_ = <<>>,
                                     !.edges_ = <<>>],
              !.size_ = 0,
              !.networkLoaded_ = FALSE]

\* run() taking result_ from the overage of the source.
PPA_run_FromSource(P) ==
    IF ~P.networkLoaded_ THEN P
    ELSE LET P3 == PPA_Rounds(PPA_prepare(FFA_reset(P)))
         IN  [P3 EXCEPT !.result_ = P3.overage_[P3.network_.source_]]

\* PreflowPushAlgorithm with the network loaded; none of its methods throws.
PPA_loadNetwork(net) ==
    [network_ |-> net, result_ |-> 0, size_ |-> Network_size(net),
     networkLoaded_ |-> TRUE,
     height_ |-> <<>>, overage_ |-> <<>>, edgeLists_ |-> <<>>,
     thrown |-> FALSE]

PPA_run(P) ==
    IF ~P.networkLoaded_ THEN P
    ELSE LET P3 == PPA_Rounds(PPA_prepare(FFA_reset(P)))
         IN  [P3 EXCEPT !.result_ = P3.overage_[P3.network_.sink_]]

(* MalhotraKumarMaheshwari *)

MKM_phi(M, vertex) == Min(M.incomePhi_[vertex], M.outcomePhi_[vertex])

isValidEdge(M, edge) ==
    /\ residualCapacity(edge) > 0
    /\ M.slice_[edge.finishVertex_] = M.slice_[edge.startVertex_] + 1

markInvalidVertex(M, vertex) ==
    IF M.vertexStates_[vertex] = "Valid"
    THEN [M EXCEPT !.verticesToDelete_ = Append(@, vertex),
                   !.vertexStates_[vertex] = "CandidateToDelete"]
    ELSE M

\* MalhotraKumarMaheshwari with the network loaded; its vectors are empty
\* until prepare resizes them.
MKM_loadNetwork(net) ==
    [network_ |-> net, result_ |-> 0, size_ |-> Network_size(net),
     networkLoaded_ |-> TRUE,
     incomePhi_ |-> <<>>, outcomePhi_ |-> <<>>, slice_ |-> <<>>,
     addedFlow_ |-> <<>>, edgeLists_ |-> <<>>, backEdgeLists_ |-> <<>>,
     vertexStates_ |-> <<>>, verticesToDelete_ |-> <<>>,
     thrown |-> FALSE]

MKM_prepare(M) ==
    [M EXCEPT !.incomePhi_ = [v \in Vertices(M.size_) |-> 0],
              !.outcomePhi_ = [v \in Vertices(M.size_) |-> 0],
              !.slice_ = [v \in Vertices(M.size_) |-> 0],
              !.edgeLists_ = [v \in Vertices(M.size_) |-> NONE],
              !.backEdgeLists_ = [v \in Vertices(M.size_) |-> NONE],
              !.vertexStates_ = [v \in Vertices(M.size_) |-> "Valid"],
              !.verticesToDelete_ = <<>>,
              !.addedFlow_ = [v \in Vertices(M.size_) |-> 0]]

\* buildSlices: the for loop over the edges of the vertex taken from the queue.
RECURSIVE MKM_SliceEdges(_, _, _, _)
MKM_SliceEdges(M, bfsQueue, vertex, edgeId) ==
    IF edgeId = NONE THEN [M |-> M, bfsQueue |-> bfsQueue]
    ELSE LET edge == EdgeAt(M.network_, edgeId)
             to == goThroughEdge(edge, vertex)
         IN  IF residualCapacity(edge) > 0 /\ M.slice_[to] = M.size_
             THEN MKM_SliceEdges([M EXCEPT !.slice_[to] = M.slice_[vertex] + 1],
                                 Append(bfsQueue, to), vertex,
                                 NextEdge(M.network_, edgeId))
             ELSE MKM_SliceEdges(M, bfsQueue, vertex,
                                 NextEdge(M.network_, edgeId))

RECURSIVE MKM_SliceBfs(_, _)
MKM_SliceBfs(M, bfsQueue) ==
    IF bfsQueue = <<>> THEN M
    ELSE LET r == MKM_SliceEdges(M, Tail(bfsQueue), Head(bfsQueue),
                                 M.network_.lastEdge_[Head(bfsQueue)])
         IN  MKM_SliceBfs(r.M, r.bfsQueue)

buildSlices(M) ==
    MKM_SliceBfs([M EXCEPT !.slice_ = [v \in Vertices(M.size_) |->
                                         IF v = M.network_.source_ THEN 0
                                         ELSE M.size_]],
                 <<M.network_.source_>>)

\* validateSlices: the for loop over the back edges of the vertex taken from
\* the queue.
RECURSIVE MKM_VisitEdges(_, _, _, _, _)
MKM_VisitEdges(M, visited, bfsQueue, vertex, edgeId) ==
    IF edgeId = NONE THEN [visited |-> visited, bfsQueue |-> bfsQueue]
    ELSE LET edge == getEdge(M.network_, edgeId, TRUE)
             to == goThroughEdge(edge, vertex)
         IN  IF /\ residualCapacity(edge) > 0
                /\ M.slice_[to] = M.slice_[vertex] - 1
             THEN MKM_VisitEdges(M, [visited EXCEPT ![to] = TRUE],
                                 Append(bfsQueue, to), vertex,
                                 NextEdge(M.network_, edgeId))
             ELSE MKM_VisitEdges(M, visited, bfsQueue, vertex,
                                 NextEdge(M.network_, edgeId))

RECURSIVE MKM_VisitBfs(_, _, _)
MKM_VisitBfs(M, visited, bfsQueue) ==
    IF bfsQueue = <<>> THEN visited
    ELSE LET r == MKM_VisitEdges(M, visited, Tail(bfsQueue), Head(bfsQueue),
                                 M.network_.lastEdge_[Head(bfsQueue)])
         IN  MKM_VisitBfs(M, r.visited, r.bfsQueue)

RECURSIVE MKM_MarkUnvisited(_, _, _)
MKM_MarkUnvisited(M, visited, vertex) ==
    IF vertex >= M.size_ THEN M
    ELSE MKM_MarkUnvisited(
             IF ~visited[vertex] THEN markInvalidVertex(M, vertex) ELSE M,
             visited, vertex + 1)

validateSlices(M) ==
    MKM_MarkUnvisited(M,
        MKM_VisitBfs(M, [v \in Vertices(M.size_) |-> v = M.network_.sink_],
                     <<M.network_.sink_>>),
        0)

RECURSIVE calcPartialPhi(_, _, _, _)
calcPartialPhi(M, partialPhi, edgeId, isBackEdgeIterator) ==
    IF edgeId = NONE THEN partialPhi
    ELSE LET edge == getEdge(M.network_, edgeId, isBackEdgeIterator)
         IN  calcPartialPhi(M,
                 IF isValidEdge(M, edge)
                 THEN partialPhi + residualCapacity(edge)
                 ELSE partialPhi,
                 NextEdge(M.network_, edgeId), isBackEdgeIterator)

\* The for loop of initializePhi.
RECURSIVE MKM_InitVertex(_, _)
MKM_InitVertex(M, vertex) ==
    IF vertex >= M.size_ THEN M
    ELSE LET last == M.network_.lastEdge_[vertex]
             M1 == [M EXCEPT !.edgeLists_[vertex] = last,
                             !.backEdgeLists_[vertex] = last]
         IN  IF M1.slice_[vertex] = M1.size_
             THEN MKM_InitVertex(markInvalidVertex(M1, vertex), vertex + 1)
             ELSE MKM_InitVertex(
                      [M1 EXCEPT !.outcomePhi_[vertex] =
                                   calcPartialPhi(M1, @, last, FALSE),
                                 !.incomePhi_[vertex] =
                                   calcPartialPhi(M1, @, last, TRUE)],
                      vertex + 1)

initializePhi(M) ==
    LET M1 == [M EXCEPT !.outcomePhi_ = [v \in Vertices(M.size_) |-> 0],
                        !.incomePhi_ = [v \in Vertices(M.size_) |-> 0]]
        M2 == MKM_InitVertex(M1, 0)
    IN  [M2 EXCEPT !.outcomePhi_[M2.network_.sink_] = INF,
                   !.incomePhi_[M2.network_.source_] = INF]

\* deleteInvalidVertices: one of the two for loops over the edges that are
\* left in a list of the deleted vertex.
RECURSIVE MKM_DeleteEdges(_, _, _, _)
MKM_DeleteEdges(M, vertex, edgeId, isBackEdgeIterator) ==
    IF edgeId = NONE THEN M
    ELSE LET edge == getEdge(M.network_, edgeId, isBackEdgeIterator)
             neighbour == goThroughEdge(edge, vertex)
             M1 == IF isBackEdgeIterator
                   THEN [M EXCEPT !.outcomePhi_[neighbour] =
                                    @ - residualCapacity(edge)]
                   ELSE [M EXCEPT !.incomePhi_[neighbour] =
                                    @ - residualCapacity(edge)]
             left == IF isBackEdgeIterator THEN M1.outcomePhi_[neighbour]
                     ELSE M1.incomePhi_[neighbour]
         IN  IF isValidEdge(M, edge)
             THEN MKM_DeleteEdges(
                      IF left = 0 THEN markInvalidVertex(M1, neighbour) ELSE M1,
                      vertex, NextEdge(M.network_, edgeId), isBackEdgeIterator)
             ELSE MKM_DeleteEdges(M, vertex, NextEdge(M.network_, edgeId),
                                  isBackEdgeIterator)

RECURSIVE deleteInvalidVertices(_)
deleteInvalidVertices(M) ==
    IF M.verticesToDelete_ = <<>> THEN M
    ELSE LET vertex == M.verticesToDelete_[Len(M.verticesToDelete_)]
             M1 == [M EXCEPT !.verticesToDelete_ = SubSeq(@, 1, Len(@) - 1),
                             !.vertexStates_[vertex] = "Deleted"]
             M2 == MKM_DeleteEdges(M1, vertex, M1.edgeLists_[vertex], FALSE)
             M3 == MKM_DeleteEdges(M2, vertex, M2.backEdgeLists_[vertex], TRUE)
         IN  deleteInvalidVertices(M3)

prepareIteration(M) ==
    deleteInvalidVertices(initializePhi(validateSlices(buildSlices(
        [M EXCEPT !.vertexStates_ = [v \in Vertices(M.size_) |-> "Valid"]]))))

\* What prepareIteration returns.
MKM_Prepared(M) ==
    /\ M.vertexStates_[M.network_.source_] = "Valid"
    /\ M.vertexStates_[M.network_.sink_] = "Valid"

\* The for loop of findVertexWithMinimalPhi.
RECURSIVE MKM_BestVertex(_, _, _)
MKM_BestVertex(M, vertex, bestVertex) ==
    IF vertex >= M.size_ THEN bestVertex
    ELSE MKM_BestVertex(M, vertex + 1,
             IF /\ M.vertexStates_[vertex] = "Valid"
                /\ (bestVertex = NONE \/ MKM_phi(M, bestVertex) > MKM_phi(M, vertex))
             THEN vertex
             ELSE bestVertex)

findVertexWithMinimalPhi(M) ==
    IF M.vertexStates_[M.network_.source_] # "Valid" THEN NONE
    ELSE MKM_BestVertex(M, 0, NONE)

maxPossibleFlowThroughEdge(M, currentVertex, edge) ==
    Min(residualCapacity(edge), MKM_phi(M, goThroughEdge(edge, currentVertex)))

\* pushFlow: the loop while (addedFlow_.at(vertex) > 0).  Taking the first
\* edge of an empty list is edges_->at of a negative id, which throws
\* std::out_of_range.
RECURSIVE MKM_PushFrom(_, _, _, _)
MKM_PushFrom(M, bfsQueue, vertex, isBackEdgeIterator) ==
    IF M.addedFlow_[vertex] <= 0 THEN [M |-> M, bfsQueue |-> bfsQueue]
    ELSE LET edgeId == IF isBackEdgeIterator THEN M.backEdgeLists_[vertex]
                       ELSE M.edgeLists_[vertex]
         IN  IF edgeId = NONE
             THEN [M |-> [M EXCEPT !.thrown = TRUE], bfsQueue |-> bfsQueue]
             ELSE LET edge == getEdge(M.network_, edgeId, isBackEdgeIterator)
                      nextVertex == goThroughEdge(edge, vertex)
                      currentFlow == Min(M.addedFlow_[vertex],
                                         maxPossibleFlowThroughEdge(M, vertex, edge))
                  IN  IF \/ M.vertexStates_[nextVertex] # "Valid"
                         \/ ~isValidEdge(M, edge)
                         \/ currentFlow = 0
                      THEN MKM_PushFrom(
                               IF isBackEdgeIterator
                               THEN [M EXCEPT !.backEdgeLists_[vertex] =
                                                NextEdge(M.network_, edgeId)]
                               ELSE [M EXCEPT !.edgeLists_[vertex] =
                                                NextEdge(M.network_, edgeId)],
                               bfsQueue, vertex, isBackEdgeIterator)
                      ELSE LET M1 == [M EXCEPT
                                        !.addedFlow_[nextVertex] = @ + currentFlow,
                                        !.network_ = Edge_pushFlow(@, edgeId,
                                                       isBackEdgeIterator, currentFlow)]
                               M2 == IF isBackEdgeIterator
                                     THEN [M1 EXCEPT !.outcomePhi_[nextVertex] =
                                                       @ - currentFlow]
                                     ELSE [M1 EXCEPT !.incomePhi_[nextVertex] =
                                                       @ - currentFlow]
                           IN  MKM_PushFrom(
                                   [M2 EXCEPT !.addedFlow_[vertex] = @ - currentFlow],
                                   IF M.addedFlow_[nextVertex] = 0
                                   THEN Append(bfsQueue, nextVertex)
                                   ELSE bfsQueue,
                                   vertex, isBackEdgeIterator)

\* pushFlow: the loop while (!bfsQueue.empty()).
RECURSIVE MKM_PushBfs(_, _, _, _)
MKM_PushBfs(M, bfsQueue, finishVertex, isBackEdgeIterator) ==
    IF bfsQueue = <<>> THEN M
    ELSE LET vertex == Head(bfsQueue)
             M1 == IF isBackEdgeIterator
                   THEN [M EXCEPT !.incomePhi_[vertex] = @ - M.addedFlow_[vertex]]
                   ELSE [M EXCEPT !.outcomePhi_[vertex] = @ - M.addedFlow_[vertex]]
             r == IF vertex # finishVertex
                  THEN MKM_PushFrom(M1, Tail(bfsQueue), vertex, isBackEdgeIterator)
                  ELSE [M |-> M1, bfsQueue |-> Tail(bfsQueue)]
             M2 == [r.M EXCEPT !.addedFlow_[vertex] = 0]
         IN  IF r.M.thrown THEN r.M
             ELSE MKM_PushBfs(
                      IF MKM_phi(M2, vertex) = 0
                      THEN markInvalidVertex(M2, vertex)
                      ELSE M2,
                      r.bfsQueue, finishVertex, isBackEdgeIterator)

\* pushFlow(referencedVertex, finishVertex, flow, edgeLists_, incomePhi_,
\* outcomePhi_) when not isBackEdgeIterator, and pushFlow(referencedVertex,
\* finishVertex, flow, backEdgeLists_, outcomePhi_, incomePhi_) otherwise.
MKM_pushFlow(M, referencedVertex, finishVertex, flow, isBackEdgeIterator) ==
    MKM_PushBfs([M EXCEPT !.addedFlow_[referencedVertex] = flow],
                <<referencedVertex>>, finishVertex, isBackEdgeIterator)

\* doIteration, from the given flowPushingIteration on.
RECURSIVE doIteration(_, _)
doIteration(M, flowPushingIteration) ==
    IF flowPushingIteration >= M.size_ THEN M
    ELSE LET M0 == [M EXCEPT !.addedFlow_ = [v \in Vertices(M.size_) |-> 0]]
             referencedVertex == findVertexWithMinimalPhi(M0)
         IN  IF referencedVertex = NONE THEN M0
             ELSE LET flow == MKM_phi(M0, referencedVertex)
                      M1 == [M0 EXCEPT !.result_ = @ + flow]
                      M2 == MKM_pushFlow(M1, referencedVertex,
                                         M1.network_.sink_, flow, FALSE)
                      M3 == IF M2.thrown THEN M2
                            ELSE MKM_pushFlow(M2, referencedVertex,
                                              M2.network_.source_, flow, TRUE)
                  IN  IF M3.thrown THEN M3
                      ELSE doIteration(deleteInvalidVertices(M3),
                                       flowPushingIteration + 1)

\* The for loop of run, from the given iteration on.
RECURSIVE MKM_Iterations(_, _)
MKM_Iterations(M, iteration) ==
    IF iteration > M.size_ THEN M
    ELSE LET M1 == prepareIteration(M)
         IN  IF ~MKM_Prepared(M1) THEN M1
             ELSE LET M2 == doIteration(M1, 0)
                  IN  IF M2.thrown THEN M2
                      ELSE MKM_Iterations(M2, iteration + 1)

MKM_run(M) ==
    IF ~M.networkLoaded_ THEN M
    ELSE MKM_Iterations(MKM_prepare(FFA_reset(M)), 0)

(* solution *)

\* for (int depend : input.depends.at(theme)) graph.insertEdge(theme, depend, INF)
RECURSIVE FN_Depends(_, _, _)
FN_Depends(graph, theme, depends) ==
    IF depends = <<>> THEN graph
    ELSE FN_Depends(insertEdge(graph, theme, Head(depends), INF), theme,
                    Tail(depends))

\* The for loop of solution over the themes.
RECURSIVE FN_Themes(_, _, _)
FN_Themes(s, input, theme) ==
    IF theme > input.N THEN s
    ELSE LET cost == input.costs[theme]
             g1 == IF cost > 0
                   THEN insertEdge(s.graph, s.graph.source_, theme, cost)
                   ELSE IF cost < 0
                   THEN insertEdge(s.graph, theme, s.graph.sink_, -cost)
                   ELSE s.graph
         IN  FN_Themes([graph |-> FN_Depends(g1, theme, input.depends[theme]),
                        costsSum |-> IF cost > 0 THEN s.costsSum + cost
                                     ELSE s.costsSum],
                       input, theme + 1)

\* The network and costsSum that solution builds.
FN_Graph(input) ==
    FN_Themes([graph |-> Network(input.N + 2, 0, input.N + 1), costsSum |-> 0],
              input, 1)

\* algorithm->loadNetwork(std::move(graph)); algorithm->reset();
\* algorithm->run();
FN_Run(Algorithm, graph) ==
    IF Algorithm = "PreflowPushAlgorithm"
    THEN PPA_run(FFA_reset(PPA_loadNetwork(graph)))
    ELSE MKM_run(FFA_reset(MKM_loadNetwork(graph)))

\* return costsSum - algorithm->result(), with the algorithm object after run
\* and whether an exception has left it.
FN_Return(costsSum, algorithm) ==
    [value |-> costsSum - algorithm.result_, thrown |-> algorithm.thrown,
     algorithm |-> algorithm]

\* solution<Algorithm>
solution(Algorithm, input) ==
    FN_Return(FN_Graph(input).costsSum,
              FN_Run(Algorithm, FN_Graph(input).graph))

\* InputData values: N themes, a cost for each, a list of themes each depends on.
InputData(N, costs, depends) == [N |-> N, costs |-> costs, depends |-> depends]

\* The lists of dependencies of the themes from the given one on, with no
\* more than left dependencies in all.
RECURSIVE FN_DependLists(_, _, _)
FN_DependLists(N, theme, left) ==
    IF theme > N THEN {<<>>}
    ELSE UNION {{<<own>> \o rest :
                    own \in [1..k -> 1..N],
                    rest \in FN_DependLists(N, theme + 1, left - k)} :
                k \in 0..left}

\* The inputs with costs beyond INF: a theme worth a * INF that depends k
\* times on a theme that costs b * INF.
FN_Heavy ==
    {InputData(2, <<a * INF, -(b * INF)>>, <<[j \in 1..k |-> 2], <<>>>>) :
        a \in 1..MaxHeavy, b \in 1..MaxHeavy, k \in 0..MaxHeavy}

\* run() before it reads its InputData; stored lists the networks that
\* solution has got back from storeNetwork.
FN_Start ==
    [pc |-> "read", input |-> InputData(0, <<>>, <<>>), result |-> 0,
     checked |-> 0, thrown |-> FALSE, stored |-> <<>>, algorithms |-> <<>>]

----------------------------------------------------------------------------
(* jit_compile_expression_to_arm of CAOS/ad1/compiler.c: the expression is a *)
(* sequence of characters, the output a sequence of instructions, each given *)
(* by the fields write_instruction receives: the operation and the bit       *)
(* fields Rn (bits 16-19), Rd (12-15), Rs (8-11), Rm (0-3), the rotation     *)
(* and the 8-bit value of an immediate, and the register list.               *)

\* A value of 32 bits is the sequence of its four bytes, the lowest first.
\* The bytes of an int in two's complement:
CC_Word(val) == [k \in 1..4 |-> (val \div (256 ^ (k - 1))) % 256]

\* The sum of two values of 32 bits from byte k on, with the carry into it.
RECURSIVE CC_AddFrom(_, _, _, _)
CC_AddFrom(a, b, k, carry) ==
    IF k > 4 THEN <<>>
    ELSE <<(a[k] + b[k] + carry) % 256>>
           \o CC_AddFrom(a, b, k + 1, (a[k] + b[k] + carry) \div 256)

CC_Add(a, b) == CC_AddFrom(a, b, 1, 0)

\* a - b: a plus the complement of b plus one.
CC_Sub(a, b) == CC_AddFrom(a, [k \in 1..4 |-> 255 - b[k]], 1, 1)

\* The sum of the products of the bytes that meet in byte k of a product.
RECURSIVE CC_Column(_, _, _, _)
CC_Column(a, b, k, j) ==
    IF j > k THEN 0 ELSE a[j] * b[k + 1 - j] + CC_Column(a, b, k, j + 1)

\* The low 32 bits of a product from byte k on, with the carry into it.
RECURSIVE CC_MulFrom(_, _, _, _)
CC_MulFrom(a, b, k, carry) ==
    IF k > 4 THEN <<>>
    ELSE <<(CC_Column(a, b, k, 1) + carry) % 256>>
           \o CC_MulFrom(a, b, k + 1, (CC_Column(a, b, k, 1) + carry) \div 256)

CC_Mul(a, b) == CC_MulFrom(a, b, 1, 0)

\* The bitwise or of two bytes, bit by bit from the lowest of the n left.
RECURSIVE CC_OrBits(_, _, _)
CC_OrBits(a, b, n) ==
    IF n = 0 THEN 0
    ELSE (IF a % 2 = 1 \/ b % 2 = 1 THEN 1 ELSE 0)
           + 2 * CC_OrBits(a \div 2, b \div 2, n - 1)

CC_Or(a, b) == [k \in 1..4 |-> CC_OrBits(a[k], b[k], 8)]

R0 == 0
R1 == 1
R4 == 4
R10 == 10
SP == 13
LR == 14

CC_Instruction ==
    [op |-> "none", Rn |-> 0, Rd |-> 0, Rs |-> 0, Rm |-> 0, rot |-> 0,
     imm |-> 0, list |-> {}]

CC_DigitChars == <<"0", "1", "2", "3", "4", "5", "6", "7", "8", "9">>

isdigit(c) == \E d \in 1..10 : CC_DigitChars[d] = c

\* c - '0' for a digit c
CC_DigitValue(c) == (CHOOSE d \in 1..10 : CC_DigitChars[d] = c) - 1

\* extern_symbols: the names the expression may use, with their addresses.
CC_Externs ==
    <<[name |-> <<"a">>, pointer |-> 4096],
      [name |-> <<"b", "c">>, pointer |-> 8192]>>

\* The memory at these addresses when the compiled code runs.
CC_Memory ==
    [address \in {CC_Word(4096), CC_Word(8192)} |->
        IF address = CC_Word(4096) THEN CC_Word(5) ELSE CC_Word(11)]

\* expr[current_pos]; the character after the last one is the terminator.
CC_At(s) ==
    IF s.current_pos < Len(s.expr) THEN s.expr[s.current_pos + 1] ELSE "NUL"

\* ++current_pos
CC_Advance(s) == [s EXCEPT !.current_pos = @ + 1]

write_instruction(s, instruction) == [s EXCEPT !.output = Append(@, instruction)]

mov_pure_value(s, reg, val, rot) ==
    write_instruction(s, [CC_Instruction EXCEPT
        !.op = "mov_imm", !.Rd = reg, !.rot = rot, !.imm = val])

orr_pure_value(s, reg, val, rot) ==
    write_instruction(s, [CC_Instruction EXCEPT
        !.op = "orr_imm", !.Rn = reg, !.Rd = reg, !.rot = rot, !.imm = val])

\* val is taken as the 32 bits of the int.
mov_val(s, reg, val) ==
    orr_pure_value(
        orr_pure_value(
            orr_pure_value(
                mov_pure_value(s, reg, CC_Word(val)[1], 0),
                reg, CC_Word(val)[4], 4),
            reg, CC_Word(val)[3], 8),
        reg, CC_Word(val)[2], 12)

mov_reg(s, dst, src) ==
    write_instruction(s, [CC_Instruction EXCEPT
        !.op = "mov_reg", !.Rd = dst, !.Rm = src])

push(s, register_list) ==
    write_instruction(s, [CC_Instruction EXCEPT
        !.op = "stmdb", !.Rn = SP, !.list = register_list])

pop(s, register_list) ==
    write_instruction(s, [CC_Instruction EXCEPT
        !.op = "ldmia", !.Rn = SP, !.list = register_list])

add(s, dst, src) ==
    write_instruction(s, [CC_Instruction EXCEPT
        !.op = "add", !.Rn = dst, !.Rd = dst, !.Rm = src])

sub(s, dst, src) ==
    write_instruction(s, [CC_Instruction EXCEPT
        !.op = "sub", !.Rn = dst, !.Rd = dst, !.Rm = src])

mul(s, dst, src) ==
    write_instruction(s, [CC_Instruction EXCEPT
        !.op = "mul", !.Rn = dst, !.Rs = dst, !.Rm = src])

ldr(s, dst, src) ==
    write_instruction(s, [CC_Instruction EXCEPT
        !.op = "ldr", !.Rn = dst, !.Rd = src])

\* parse_num: the loop over the digits, num so far.
RECURSIVE CC_Digits(_, _)
CC_Digits(s, num) ==
    IF isdigit(CC_At(s))
    THEN CC_Digits(CC_Advance(s), num * 10 + CC_DigitValue(CC_At(s)))
    ELSE [s |-> s, num |-> num]

parse_num(s) == mov_val(CC_Digits(s, 0).s, R0, CC_Digits(s, 0).num)

process_var(s, pointer) == ldr(mov_val(s, R0, pointer), R0, R0)

\* get_current_symbol: the loop that moves current_pos behind the name.
RECURSIVE CC_SkipName(_)
CC_SkipName(s) ==
    IF CC_At(s) \in {"NUL", "(", "+", "-", "*", ",", ")"}
    THEN s
    ELSE CC_SkipName(CC_Advance(s))

\* get_current_symbol: the pointer of the first symbol with that name, 0 if
\* there is none.
CC_Lookup(name) ==
    IF \E k \in 1..Len(CC_Externs) : CC_Externs[k].name = name
    THEN CC_Externs[CHOOSE k \in 1..Len(CC_Externs) :
                        /\ CC_Externs[k].name = name
                        /\ \A j \in 1..(k - 1) : CC_Externs[j].name # name].pointer
    ELSE 0

get_current_symbol(s) ==
    [s |-> CC_SkipName(s),
     pointer |-> CC_Lookup(SubSeq(s.expr, s.current_pos + 1,
                                  CC_SkipName(s).current_pos))]

func_call(s, pointer) ==
    pop(write_instruction(push(mov_val(s, R4, pointer), {LR}),
                          [CC_Instruction EXCEPT !.op = "blx", !.Rm = R4]),
        {LR})

\* process_function: while (argc) pop(shifted_bit(--argc));
RECURSIVE CC_PopArguments(_, _)
CC_PopArguments(s, argc) ==
    IF argc = 0 THEN s ELSE CC_PopArguments(pop(s, {argc - 1}), argc - 1)

RECURSIVE parse_expr(_, _, _)
RECURSIVE CC_Arguments(_, _)

\* process_function: the loop over the arguments, argc so far.
CC_Arguments(s, argc) ==
    IF CC_At(s) # ")"
    THEN CC_Arguments(
             push(parse_expr(IF CC_At(s) = "," THEN CC_Advance(s) ELSE s,
                             FALSE, FALSE),
                  {R0}),
             argc + 1)
    ELSE [s |-> s, argc |-> argc]

process_function(s, pointer) ==
    func_call(CC_PopArguments(CC_Advance(CC_Arguments(CC_Advance(s), 0).s),
                              CC_Arguments(CC_Advance(s), 0).argc),
              pointer)

\* parse_expr up to `if (is_after_unary_operator)`.
CC_Operand(s) ==
    IF CC_At(s) = "("
    THEN CC_Advance(parse_expr(CC_Advance(s), FALSE, FALSE))
    ELSE IF CC_At(s) \in {"+", "-"}
    THEN IF CC_At(s) = "-"
         THEN mul(mov_val(parse_expr(CC_Advance(s), FALSE, TRUE), R1, -1), R0, R1)
         ELSE parse_expr(CC_Advance(s), FALSE, TRUE)
    ELSE IF isdigit(CC_At(s))
    THEN parse_num(s)
    ELSE IF CC_At(get_current_symbol(s).s) = "("
    THEN process_function(get_current_symbol(s).s, get_current_symbol(s).pointer)
    ELSE process_var(get_current_symbol(s).s, get_current_symbol(s).pointer)

\* parse_expr: if (expr[current_pos] == '*') { ... }
CC_Product(s) ==
    IF CC_At(s) = "*"
    THEN mul(pop(parse_expr(push(CC_Advance(s), {R0}), TRUE, FALSE), {R1}), R0, R1)
    ELSE s

\* parse_expr: if (!is_part_of_mul && (expr[current_pos] == '+' || ... '-'))
CC_Sum(s, is_part_of_mul) ==
    IF ~is_part_of_mul /\ CC_At(s) = "+"
    THEN add(pop(parse_expr(push(CC_Advance(s), {R0}), FALSE, FALSE), {R1}), R0, R1)
    ELSE IF ~is_part_of_mul /\ CC_At(s) = "-"
    THEN mov_reg(sub(pop(parse_expr(push(CC_Advance(s), {R0}), FALSE, FALSE),
                         {R1}),
                     R1, R0),
                 R0, R1)
    ELSE s

parse_expr(s, is_part_of_mul, is_after_unary_operator) ==
    IF is_after_unary_operator
    THEN CC_Operand(s)
    ELSE CC_Sum(CC_Product(CC_Operand(s)), is_part_of_mul)

start_compile(s) == push(s, R4..R10)

finish_compile(s) ==
    write_instruction(pop(s, R4..R10), [CC_Instruction EXCEPT !.op = "bx", !.Rm = LR])

\* The copy of the expression without its spaces, the three calls, and the
\* instructions written to out_buffer.
jit_compile_expression_to_arm(expression) ==
    finish_compile(
        parse_expr(
            start_compile([expr |-> SelectSeq(expression, LAMBDA c : c # " "),
                           current_pos |-> 0,
                           output |-> <<>>]),
            FALSE, FALSE)).output

(* The processor that runs the instructions: sixteen registers of 32 bits,  *)
(* the words on the stack above the caller's (the last is at the lowest      *)
(* address), and the memory of the variables.                                *)

\* An 8-bit value rotated right by twice rot in 32 bits, for the rotations by
\* whole bytes that mov_val uses: by 8 bits it becomes the highest byte.
CC_Rotated(imm, rot) ==
    [k \in 1..4 |-> IF (k - 1) = (4 - rot \div 4) % 4 THEN imm ELSE 0]

\* stmdb sp!, {list}: the highest register is stored first.
RECURSIVE CC_Store(_, _)
CC_Store(m, list) ==
    IF list = {} THEN m
    ELSE LET r == CHOOSE q \in list : \A p \in list : p <= q
         IN  CC_Store([m EXCEPT !.stack = Append(@, m.R[r])], list \ {r})

\* ldmia sp!, {list}: the lowest register is loaded first; a load below the
\* stack of the compiled code takes a word of the caller.
RECURSIVE CC_Load(_, _)
CC_Load(m, list) ==
    IF list = {} THEN m
    ELSE LET r == CHOOSE q \in list : \A p \in list : q <= p
         IN  IF m.stack = <<>>
             THEN CC_Load([m EXCEPT !.R[r] = CC_Word(0), !.underflow = TRUE],
                          list \ {r})
             ELSE CC_Load([m EXCEPT !.R[r] = m.stack[Len(m.stack)],
                                    !.stack = SubSeq(@, 1, Len(@) - 1)],
                          list \ {r})

\* One instruction.
CC_Execute(m, ins) ==
    CASE ins.op = "mov_imm" ->
           [m EXCEPT !.R[ins.Rd] = CC_Rotated(ins.imm, ins.rot)]
      [] ins.op = "orr_imm" ->
           [m EXCEPT !.R[ins.Rd] =
               CC_Or(m.R[ins.Rn], CC_Rotated(ins.imm, ins.rot))]
      [] ins.op = "mov_reg" -> [m EXCEPT !.R[ins.Rd] = m.R[ins.Rm]]
      [] ins.op = "add" ->
           [m EXCEPT !.R[ins.Rd] = CC_Add(m.R[ins.Rn], m.R[ins.Rm])]
      [] ins.op = "sub" ->
           [m EXCEPT !.R[ins.Rd] = CC_Sub(m.R[ins.Rn], m.R[ins.Rm])]
      [] ins.op = "mul" ->
           [m EXCEPT !.R[ins.Rn] = CC_Mul(m.R[ins.Rm], m.R[ins.Rs])]
      [] ins.op = "ldr" -> [m EXCEPT !.R[ins.Rd] = CC_Memory[m.R[ins.Rn]]]
      [] ins.op = "stmdb" -> CC_Store(m, ins.list)
      [] ins.op = "ldmia" -> CC_Load(m, ins.list)
      [] ins.op = "bx" -> [m EXCEPT !.returned = TRUE]

\* The instructions from the k-th on, up to the return.
RECURSIVE CC_Run(_, _, _)
CC_Run(m, code, k) ==
    IF k > Len(code) \/ m.returned THEN m
    ELSE CC_Run(CC_Execute(m, code[k]), code, k + 1)

\* The processor when the compiled code is called.
CC_Called ==
    [R |-> [r \in 0..15 |-> CC_Word(0)], stack |-> <<>>, underflow |-> FALSE,
     returned |-> FALSE]

(* The expressions given to the compiler: syntax trees with up to MaxOps     *)
(* operators, written out with the parentheses the usual rules need.         *)

CC_Leaves == {<<"num", 3>>, <<"num", 12>>, <<"var", <<"a">>>>}

\* The trees with exactly n operators.
RECURSIVE CC_Trees(_)
CC_Trees(n) ==
    IF n = 0 THEN CC_Leaves
    ELSE {<<u, t>> : u \in {"neg", "pos"}, t \in CC_Trees(n - 1)}
         \cup UNION {{<<b, l, r>> : b \in {"add", "sub", "mul"},
                                    l \in CC_Trees(k),
                                    r \in CC_Trees(n - 1 - k)} :
                     k \in 0..(n - 1)}

\* How tightly the operator at the top of a tree binds.
CC_Binds(t) ==
    IF t[1] \in {"add", "sub"} THEN 1
    ELSE IF t[1] = "mul" THEN 2
    ELSE IF t[1] \in {"neg", "pos"} THEN 3
    ELSE 4

RECURSIVE CC_Decimal(_)
CC_Decimal(n) ==
    IF n < 10 THEN <<CC_DigitChars[n + 1]>>
    ELSE CC_Decimal(n \div 10) \o <<CC_DigitChars[(n % 10) + 1]>>

\* The text of a tree; an operand that binds less tightly than least is put
\* in parentheses.  A space follows each binary + sign.
RECURSIVE CC_Text(_, _)
CC_Text(t, least) ==
    LET text ==
            IF t[1] = "num" THEN CC_Decimal(t[2])
            ELSE IF t[1] = "var" THEN t[2]
            ELSE IF t[1] = "neg" THEN <<"-">> \o CC_Text(t[2], 3)
            ELSE IF t[1] = "pos" THEN <<"+">> \o CC_Text(t[2], 3)
            ELSE IF t[1] = "add"
            THEN CC_Text(t[2], 1) \o <<"+", " ">> \o CC_Text(t[3], 2)
            ELSE IF t[1] = "sub"
            THEN CC_Text(t[2], 1) \o <<"-">> \o CC_Text(t[3], 2)
            ELSE CC_Text(t[2], 2) \o <<"*">> \o CC_Text(t[3], 3)
    IN  IF CC_Binds(t) < least THEN <<"(">> \o text \o <<")">> ELSE text

\* The compiler before it is given an expression.
CC_Start ==
    [pc |-> "read", tree |-> <<"num", 0>>, expression |-> <<>>,
     output |-> <<>>, machine |-> CC_Called]

----------------------------------------------------------------------------
(* The locals of main() of part_000 and of Strings.cpp, and the iterator     *)
(* calls on the machine main has built.                                      *)

Programs == {"part_000", "Strings.cpp"}

\* Build() of the SuffixMachine of Strings.cpp, from index k on.
RECURSIVE Strings_Build(_, _, _)
Strings_Build(m, string, k) ==
    IF k < Len(string)
    THEN Strings_Build(Strings_Extend(m, string[k + 1]), string, k + 1)
    ELSE m

\* new SuffixTree<int>(s) in part_000, new SuffixMachine<int>(s) in Strings.cpp.
Main_Machine(program, string) ==
    IF program = "part_000"
    THEN ST_Construct(string)
    ELSE Strings_Finally(Strings_Build(SM_Init, string, 0))

\* No accessor of an iterator has been called yet.
Main_NoCall == [op |-> "none", valid |-> TRUE]

Main_Start ==
    [pc |-> "start", program |-> "none", machine |-> NullV,
     it |-> DefaultIterator, best_it |-> DefaultIterator, best_val |-> 0,
     ans |-> <<>>, call |-> Main_NoCall, x |-> 0]

\* Valid() of an iterator of the driver.
Main_Valid(iter) ==
    /\ iter.vertices_ # "nullptr"
    /\ iter.index_ < Len(mn.machine.vertices_)

\* vertices_->at(index_)
Main_Vertex(iter) == mn.machine.vertices_[iter.index_ + 1]

Main_GetMaximalLength(iter) ==
    IF mn.program = "part_000"
    THEN ST_GetMaximalLength(mn.machine, Main_Vertex(iter))
    ELSE SM_GetMaximalLength(mn.machine, Main_Vertex(iter))

Main_GetNumOfOccurrences(iter) ==
    IF mn.program = "part_000"
    THEN ST_GetNumOfOccurrences(mn.machine, Main_Vertex(iter))
    ELSE SM_GetNumOfOccurrences(mn.machine, Main_Vertex(iter))

Main_GetStateString(iter) ==
    IF mn.program = "part_000"
    THEN ST_GetString(mn.machine, Main_Vertex(iter))
    ELSE SM_GetString(mn.machine, Main_Vertex(iter))

----------------------------------------------------------------------------
(* The program: SuffixMachine(string) and SuffixTree(string) are constructed *)
(* one after the other (each constructor runs Init, Build, Finally), then    *)
(* iterators are obtained and used.                                          *)

NoCall == [op |-> "none", value |-> "none"]

\* The programs of the repository at the start of main, each with an input
\* from the given set.
Start(inputs, files) ==
    /\ string_ \in inputs
    /\ pc = "SM_Build"
    /\ i = 0
    /\ sm = SM_Init
    /\ st = ST_Init(string_)
    /\ it = DefaultIterator
    /\ advanced = 0
    /\ call = NoCall
    /\ x = 0
    /\ other = [iter |-> DefaultIterator, advanced |-> 0]
    /\ strings = Strings_Start
    /\ ds \in {DS_Start(f) : f \in files}
    /\ fn = FN_Start
    /\ uk = UK_Start(string_)
    /\ mn = Main_Start
    /\ cc = CC_Start

Init == Start(Inputs, {<<>>})

SM_BuildStep ==
    /\ pc = "SM_Build"
    /\ i < Len(string_)
    /\ sm' = SM_Extend(sm, string_[i + 1])
    /\ i' = i + 1
    /\ UNCHANGED <<elsewhere, string_, pc, st, it, advanced, call, x>>

SM_FinallyStep ==
    /\ pc = "SM_Build"
    /\ i = Len(string_)
    /\ sm' = SM_Finally(sm)
    /\ pc' = "ST_Build"
    /\ i' = 0
    /\ UNCHANGED <<elsewhere, string_, st, it, advanced, call, x>>

\* The symbol at index i is processed, and the loop stays at it.
ST_BuildStep_SameSymbol ==
    /\ pc = "ST_Build"
    /\ i < Len(string_)
    /\ st' = ST_Extend(st, i)
    /\ UNCHANGED <<elsewhere, string_, pc, i, sm, it, advanced, call, x>>

ST_BuildStep ==
    /\ pc = "ST_Build"
    /\ i < Len(string_)
    /\ st' = ST_Extend(st, i)
    /\ i' = i + 1
    /\ UNCHANGED <<elsewhere, string_, pc, sm, it, advanced, call, x>>

ST_FinallyStep ==
    /\ pc = "ST_Build"
    /\ i = Len(string_)
    /\ st' = ST_Finally(st)
    /\ pc' = "Ready"
    /\ UNCHANGED <<elsewhere, string_, i, sm, it, advanced, call, x>>

\* it = machine->GetRightContextIterator()
ObtainIterator ==
    /\ pc = "Ready"
    /\ \E machine \in Machines : it' = GetRightContextIterator(machine)
    /\ advanced' = 0
    /\ call' = [op |-> "GetRightContextIterator", value |-> "none"]
    /\ UNCHANGED <<elsewhere, string_, pc, i, sm, st, x>>

\* Assert(false): the call never returns.
EnterAssert(op) ==
    /\ pc' = "Assert"
    /\ call' = [op |-> op, value |-> "none"]
    /\ UNCHANGED <<elsewhere, string_, i, sm, st, it, advanced, x>>

\* it = it.Next()
CallNext ==
    /\ pc = "Ready"
    /\ IF Valid(it)
       THEN /\ it' = Next(it)
            /\ advanced' = advanced + 1
            /\ call' = [op |-> "Next", value |-> "none"]
            /\ UNCHANGED <<elsewhere, string_, pc, i, sm, st, x>>
       ELSE EnterAssert("Next")

Accessor(op, value) ==
    /\ pc = "Ready"
    /\ IF Valid(it)
       THEN /\ call' = [op |-> op, value |-> value]
            /\ UNCHANGED <<elsewhere, string_, pc, i, sm, st, it, advanced, x>>
       ELSE EnterAssert(op)

CallGetStateString == Accessor("GetStateString", GetStateString(it))

CallGetMaximalLength == Accessor("GetMaximalLength", GetMaximalLength(it))

CallGetNumOfOccurrences == Accessor("GetNumOfOccurrences", GetNumOfOccurrences(it))

\* volatile int x = 0; while (true) ++x;  The loop has no exit; the model
\* follows it for MaxSpin iterations (far below the overflow of int).
AssertLoop ==
    /\ pc = "Assert"
    /\ x < MaxSpin
    /\ x' = x + 1
    /\ UNCHANGED <<elsewhere, string_, pc, i, sm, st, it, advanced, call>>

Step ==
    \/ SM_BuildStep
    \/ SM_FinallyStep
    \/ ST_BuildStep
    \/ ST_FinallyStep
    \/ ObtainIterator
    \/ CallNext
    \/ CallGetStateString
    \/ CallGetMaximalLength
    \/ CallGetNumOfOccurrences
    \/ AssertLoop

Spec == Init /\ [][Step]_vars

\* The two constructors alone, up to the end of SuffixTree::Finally.
Construct ==
    \/ SM_BuildStep
    \/ SM_FinallyStep
    \/ ST_BuildStep
    \/ ST_FinallyStep

SpecConstruct == Init /\ [][Construct]_vars


----------------------------------------------------------------------------
(* The constructor of the SuffixMachine of Strings.cpp, next to the one of   *)
(* part_000, on the same input.                                              *)

Strings_BuildStep ==
    /\ strings.pc = "Build"
    /\ strings.i < Len(string_)
    /\ strings' = [strings EXCEPT
                      !.m = Strings_Extend(@, string_[strings.i + 1]),
                      !.i = @ + 1]
    /\ UNCHANGED <<string_, pc, i, sm, st, it, advanced, call, x, other, ds, fn, uk, mn, cc>>

Strings_FinallyStep ==
    /\ strings.pc = "Build"
    /\ strings.i = Len(string_)
    /\ strings' = [strings EXCEPT !.m = Strings_Finally(@), !.pc = "Done"]
    /\ UNCHANGED <<string_, pc, i, sm, st, it, advanced, call, x, other, ds, fn, uk, mn, cc>>

Revisions ==
    \/ SM_BuildStep
    \/ SM_FinallyStep
    \/ Strings_BuildStep
    \/ Strings_FinallyStep

SpecRevisions == Init /\ [][Revisions]_vars

----------------------------------------------------------------------------
(* The digit splitter as a program: init_program, the turns of the loop of   *)
(* run_program, clean_up_and_exit.                                           *)

DS_Others ==
    <<string_, pc, i, sm, st, it, advanced, call, x, other, strings, fn, uk, mn, cc>>

\* What the environment may say about the open and the malloc of one stream.
DS_StreamEnv == [opens : BOOLEAN, mallocs : BOOLEAN]

\* At most MaxFaults of the calls of the program fail.
DS_FaultsLeft(d) == d.faults < MaxFaults

DS_InitProgram ==
    /\ ds.pc = "init_program"
    /\ \E env \in [1..3 -> DS_StreamEnv] : ds' = init_program(ds, env)
    /\ UNCHANGED DS_Others

DS_RunProgram ==
    /\ ds.pc = "run_program"
    /\ \E read_chars \in DS_ReadReturns(ds), k \in 1..BSIZE, fails \in BOOLEAN :
         /\ (read_chars = -1 \/ fails) => DS_FaultsLeft(ds)
         /\ ds' = run_program(ds, read_chars, k, fails)
    /\ UNCHANGED DS_Others

DS_CleanUpAndExit ==
    /\ ds.pc = "clean_up_and_exit"
    /\ \E k \in 1..BSIZE, fails2 \in BOOLEAN, fails3 \in BOOLEAN :
         /\ (fails2 \/ fails3) => DS_FaultsLeft(ds)
         /\ ds' = clean_up_and_exit(ds, k, fails2, fails3)
    /\ UNCHANGED DS_Others

Splitter ==
    \/ DS_InitProgram
    \/ DS_RunProgram
    \/ DS_CleanUpAndExit

SpecSplitter == Start({<<>>}, Files) /\ [][Splitter]_vars

----------------------------------------------------------------------------
(* run() of Reviews/FlowNetwork.cpp: the read of the input, the solution by *)
(* PreflowPushAlgorithm, the assert that compares it with the solution by   *)
(* MalhotraKumarMaheshwari, the output.                                     *)

FN_Others ==
    <<string_, pc, i, sm, st, it, advanced, call, x, other, strings, ds, uk, mn, cc>>

\* auto data = InputData::read(std::cin): an input of up to MaxThemes themes
\* that cost no more than MaxCost either way and have MaxDepends
\* dependencies in all, or one with costs beyond INF.
FN_Read ==
    /\ fn.pc = "read"
    /\ \/ \E N \in 1..MaxThemes :
             \E costs \in [1..N -> (-MaxCost)..MaxCost],
                depends \in FN_DependLists(N, 1, MaxDepends) :
                 fn' = [fn EXCEPT !.input = InputData(N, costs, depends),
                                  !.pc = "run"]
       \/ \E input \in FN_Heavy :
             fn' = [fn EXCEPT !.input = input, !.pc = "run"]
    /\ UNCHANGED FN_Others

\* run() with result initialised from what solution has returned.
FN_Result(f, s) ==
    [f EXCEPT !.result = s.value,
              !.stored = Append(@, s.algorithm.network_),
              !.algorithms = Append(@, s.algorithm),
              !.pc = "assert"]

\* int result(solution<PreflowPushAlgorithm>(data));
FN_SolutionPreflowPush ==
    /\ fn.pc = "run"
    /\ fn' = FN_Result(fn, solution("PreflowPushAlgorithm", fn.input))
    /\ UNCHANGED FN_Others

\* run() with result compared to what solution has returned; an exception
\* that leaves solution is not caught and terminates the program.
FN_Compared(f, s) ==
    [f EXCEPT !.checked = s.value,
              !.thrown = s.thrown,
              !.stored = IF s.thrown THEN @
                         ELSE Append(@, s.algorithm.network_),
              !.algorithms = IF s.thrown THEN @ ELSE Append(@, s.algorithm),
              !.pc = IF s.thrown THEN "terminate"
                     ELSE IF f.result = s.value THEN "output"
                     ELSE "abort"]

\* assert(result == solution<MalhotraKumarMaheshwari>(data));
FN_Assert ==
    /\ fn.pc = "assert"
    /\ fn' = FN_Compared(fn, solution("MalhotraKumarMaheshwari", fn.input))
    /\ UNCHANGED FN_Others

\* std::cout << result << std::endl;
FN_Output ==
    /\ fn.pc = "output"
    /\ fn' = [fn EXCEPT !.pc = "done"]
    /\ UNCHANGED FN_Others

Flow ==
    \/ FN_Read
    \/ FN_SolutionPreflowPush
    \/ FN_Assert
    \/ FN_Output

SpecFlow == Start({<<>>}, {<<>>}) /\ [][Flow]_vars

----------------------------------------------------------------------------
(* The steps of SuffixTree(string) call by call.                             *)

UK_Others ==
    <<string_, pc, i, sm, st, it, advanced, call, x, other, strings, ds, fn, mn,
      cc>>

UK_Top == uk.stack[Len(uk.stack)]

UK_Pop == SubSeq(uk.stack, 1, Len(uk.stack) - 1)

\* One turn of the while (true) loop of Build for the symbol at index i, up
\* to the call of SplitEdge.
UK_Build ==
    /\ uk.pc = "Build"
    /\ uk.i < Len(string_)
    /\ IF CanGo(uk.t, uk.t.last_not_leaf_, ST_At(uk.t, uk.i))
       THEN uk' = [uk EXCEPT !.t.last_not_leaf_ =
                                 OneStepDown(uk.t, @, ST_At(uk.t, uk.i)),
                             !.i = @ + 1,
                             !.inner = FALSE]
       ELSE uk' = [uk EXCEPT !.stack = <<UK_Call(uk.t, uk.t.last_not_leaf_, "Build")>>,
                             !.inner = TRUE,
                             !.pc = "SplitEdge"]
    /\ UNCHANGED UK_Others

\* Finally() up to its call of SplitEdge.
UK_Finally ==
    /\ uk.pc = "Build"
    /\ uk.i = Len(string_)
    /\ uk' = [uk EXCEPT !.stack = <<UK_Call(uk.t, uk.t.last_not_leaf_, "Finally")>>,
                        !.pc = "SplitEdge"]
    /\ UNCHANGED UK_Others

\* The body of the innermost call of SplitEdge: it returns the vertex of a
\* vertex position, and otherwise makes new_v and has BuildSuffixLink call
\* SplitEdge again.
UK_SplitEdge ==
    /\ uk.pc = "SplitEdge"
    /\ IF IsVertex(UK_Top.pos)
       THEN uk' = [uk EXCEPT !.ret = UK_Top.pos.down_vertex, !.pc = "Return"]
       ELSE uk' = [uk EXCEPT
                     !.t = ST_Cut(uk.t, UK_Top.pos).t,
                     !.stack = Append(
                         [@ EXCEPT ![Len(@)].new_v = ST_Cut(uk.t, UK_Top.pos).v],
                         UK_Call(ST_Cut(uk.t, UK_Top.pos).t,
                                 ST_LinkFrom(ST_Cut(uk.t, UK_Top.pos).t,
                                             ST_Cut(uk.t, UK_Top.pos).v),
                                 "BuildSuffixLink"))]
    /\ UNCHANGED UK_Others

\* What the caller does with the vertex a call of SplitEdge has returned.
UK_Resume(u, caller, vertex) ==
    IF caller = "BuildSuffixLink"
    THEN [u EXCEPT !.t.V[u.stack[Len(u.stack)].new_v].suffix_link = vertex,
                   !.ret = u.stack[Len(u.stack)].new_v]
    ELSE IF caller = "Build"
    THEN IF vertex = u.t.root_
         THEN [u EXCEPT !.t = MakeLeaf(@, vertex, u.i),
                        !.i = @ + 1,
                        !.inner = FALSE,
                        !.pc = "Build"]
         ELSE [u EXCEPT !.t = [MakeLeaf(@, vertex, u.i) EXCEPT
                                  !.last_not_leaf_ =
                                      Position(u.t.V[vertex].suffix_link)],
                        !.pc = "Build"]
    ELSE [u EXCEPT !.t = ST_ProcessVertex(ST_MarkTerminal(@, vertex), u.t.root_),
                   !.pc = "Done"]

\* The innermost call of SplitEdge returns.
UK_Return ==
    /\ uk.pc = "Return"
    /\ uk' = UK_Resume([uk EXCEPT !.stack = UK_Pop,
                                  !.last = [returned |-> TRUE,
                                            pre |-> UK_Top.pre,
                                            pos |-> UK_Top.pos,
                                            post |-> uk.t,
                                            vertex |-> uk.ret]],
                       UK_Top.caller, uk.ret)
    /\ UNCHANGED UK_Others

Ukkonen ==
    \/ UK_Build
    \/ UK_Finally
    \/ UK_SplitEdge
    \/ UK_Return

SpecUkkonen == Init /\ [][Ukkonen]_vars

----------------------------------------------------------------------------
(* main() of part_000 (SuffixTree) and of Strings.cpp (SuffixMachine): the   *)
(* driver reads the input, builds its machine, walks the enumeration keeping *)
(* the position with the largest length * occurrences, and prints that       *)
(* product and the string of the kept position.                              *)

Main_Others ==
    <<string_, pc, i, sm, st, it, advanced, call, x, other, strings, ds, fn, uk,
      cc>>

\* main up to the loop: the input is read, the machine built, the iterator
\* obtained.
Main_Enter ==
    /\ mn.pc = "start"
    /\ \E program \in Programs :
         mn' = [mn EXCEPT !.program = program,
                          !.machine = Main_Machine(program, string_),
                          !.it = GetRightContextIterator("machine"),
                          !.pc = "loop"]
    /\ UNCHANGED Main_Others

\* One test of it.Valid() and, when it holds, one turn of the loop.
Main_Loop ==
    /\ mn.pc = "loop"
    /\ IF Main_Valid(mn.it)
       THEN mn' = [mn EXCEPT
                     !.best_val =
                         IF Main_GetMaximalLength(mn.it)
                              * Main_GetNumOfOccurrences(mn.it) > mn.best_val
                         THEN Main_GetMaximalLength(mn.it)
                                * Main_GetNumOfOccurrences(mn.it)
                         ELSE @,
                     !.best_it =
                         IF Main_GetMaximalLength(mn.it)
                              * Main_GetNumOfOccurrences(mn.it) > mn.best_val
                         THEN mn.it
                         ELSE @,
                     !.call = [op |-> "GetNumOfOccurrences", valid |-> TRUE],
                     !.it = Next(mn.it)]
       ELSE mn' = [mn EXCEPT !.pc = "output"]
    /\ UNCHANGED Main_Others

\* cout << best_val; auto ans(best_it.GetStateString()); and the output of
\* ans.  On an iterator that is not valid GetStateString of part_000 enters
\* Assert; the one of Strings.cpp dereferences vertices_, a null pointer,
\* which may end the process or go on with whatever string comes back.
Main_Output ==
    /\ mn.pc = "output"
    /\ \/ /\ Main_Valid(mn.best_it)
          /\ mn' = [mn EXCEPT !.ans = Main_GetStateString(mn.best_it),
                              !.call = [op |-> "GetStateString", valid |-> TRUE],
                              !.pc = "done"]
       \/ /\ ~Main_Valid(mn.best_it)
          /\ mn.program = "part_000"
          /\ mn' = [mn EXCEPT !.call = [op |-> "GetStateString", valid |-> FALSE],
                              !.pc = "Assert"]
       \/ /\ ~Main_Valid(mn.best_it)
          /\ mn.program = "Strings.cpp"
          /\ \E outcome \in {"crashed", "done"} :
               mn' = [mn EXCEPT !.call = [op |-> "GetStateString", valid |-> FALSE],
                                !.pc = outcome]
    /\ UNCHANGED Main_Others

\* The loop of Assert(false), followed for MaxSpin iterations.
Main_AssertLoop ==
    /\ mn.pc = "Assert"
    /\ mn.x < MaxSpin
    /\ mn' = [mn EXCEPT !.x = @ + 1]
    /\ UNCHANGED Main_Others

Main ==
    \/ Main_Enter
    \/ Main_Loop
    \/ Main_Output
    \/ Main_AssertLoop

SpecMain == Init /\ [][Main]_vars

----------------------------------------------------------------------------
(* A caller of jit_compile_expression_to_arm: it takes an expression, has   *)
(* it compiled, and calls the code.                                          *)

CC_Others ==
    <<string_, pc, i, sm, st, it, advanced, call, x, other, strings, ds, fn,
      uk, mn>>

CC_Read ==
    /\ cc.pc = "read"
    /\ \E n \in 0..MaxOps :
         \E t \in CC_Trees(n) :
             cc' = [cc EXCEPT !.tree = t,
                              !.expression = CC_Text(t, 0),
                              !.pc = "compile"]
    /\ UNCHANGED CC_Others

CC_Compile ==
    /\ cc.pc = "compile"
    /\ cc' = [cc EXCEPT !.output = jit_compile_expression_to_arm(cc.expression),
                        !.pc = "call"]
    /\ UNCHANGED CC_Others

CC_Call ==
    /\ cc.pc = "call"
    /\ cc' = [cc EXCEPT !.machine = CC_Run(CC_Called, cc.output, 1),
                        !.pc = "done"]
    /\ UNCHANGED CC_Others

Compiler ==
    \/ CC_Read
    \/ CC_Compile
    \/ CC_Call

SpecCompiler == Start({<<>>}, {<<>>}) /\ [][Compiler]_vars

----------------------------------------------------------------------------
(* Two iterators used side by side on the finalized machines.  The methods *)
(* of RightContextIterator are const: a call reads the receiver and the    *)
(* shared collection and writes only the object its result is assigned to. *)

\* it = machine->GetRightContextIterator(), once per machine object.
ObtainFirst ==
    /\ pc = "Ready"
    /\ it = DefaultIterator
    /\ \E machine \in Machines : it' = GetRightContextIterator(machine)
    /\ advanced' = 0
    /\ UNCHANGED <<beyond, string_, pc, i, sm, st, call, x, other>>

\* other = machine->GetRightContextIterator(), from the machine `it` is over.
ObtainSecond ==
    /\ pc = "Ready"
    /\ it.vertices_ \in Machines
    /\ other' = [iter |-> GetRightContextIterator(it.vertices_), advanced |-> 0]
    /\ UNCHANGED <<beyond, string_, pc, i, sm, st, it, advanced, call, x>>

\* it = it.Next()
AdvanceFirst ==
    /\ pc = "Ready"
    /\ Valid(it)
    /\ it' = Next(it)
    /\ advanced' = advanced + 1
    /\ UNCHANGED <<beyond, string_, pc, i, sm, st, call, x, other>>

\* other = other.Next()
AdvanceSecond ==
    /\ pc = "Ready"
    /\ Valid(other.iter)
    /\ other' = [iter |-> Next(other.iter), advanced |-> other.advanced + 1]
    /\ UNCHANGED <<beyond, string_, pc, i, sm, st, it, advanced, call, x>>

\* other = it.Next(): the receiver `it` is not written.
AdvanceInto ==
    /\ pc = "Ready"
    /\ Valid(it)
    /\ other' = [iter |-> Next(it), advanced |-> advanced + 1]
    /\ UNCHANGED <<beyond, string_, pc, i, sm, st, it, advanced, call, x>>

TwoIterators ==
    \/ Construct
    \/ ObtainFirst
    \/ ObtainSecond
    \/ AdvanceFirst
    \/ AdvanceSecond
    \/ AdvanceInto

SpecTwoIterators == Init /\ [][TwoIterators]_vars

SM_Done == pc # "SM_Build"

ST_Done == pc \in {"Ready", "Assert"}

----------------------------------------------------------------------------
(* Oracles and views used by the properties *)

\* Number of start positions k (from 0) at which the substring of s of
\* length len equals w.
Occurrences(s, w, len) ==
    Cardinality({k \in 0..(Len(s) - len) : SubSeq(s, k + 1, k + len) = w})

IteratorAt(machine, j) == [vertices_ |-> machine, index_ |-> j]

\* Positions 0..k-1 of the collection of a machine.
Indices(machine) == 0..(Len(GetVertices(machine)) - 1)

Done(machine) == IF machine = "SuffixMachine" THEN SM_Done ELSE ST_Done

\* What the enumeration reports at position j.
Triple(machine, j) ==
    <<GetStateString(IteratorAt(machine, j)),
      GetMaximalLength(IteratorAt(machine, j)),
      GetNumOfOccurrences(IteratorAt(machine, j))>>

Pair(machine, j) ==
    <<GetMaximalLength(IteratorAt(machine, j)),
      GetNumOfOccurrences(IteratorAt(machine, j))>>

PairCount(machine, pair) ==
    Cardinality({j \in Indices(machine) : Pair(machine, j) = pair})

Pairs(machine) == {Pair(machine, j) : j \in Indices(machine)}

----------------------------------------------------------------------------
(* Properties *)

\* C1: every state/vertex enumerated by a finalized machine reports as
\* GetNumOfOccurrences() the number of start positions of the input at which
\* the substring of length GetMaximalLength() equals GetStateString().
C1_OccurrenceCount ==
    \A machine \in Machines :
        Done(machine) =>
            \A j \in Indices(machine) :
                Triple(machine, j)[3] =
                    Occurrences(string_, Triple(machine, j)[1], Triple(machine, j)[2])

\* Both machines are finalized and each reports a state that occurs at least
\* twice and is longer than one symbol.
C1_Witness ==
    /\ ST_Done
    /\ \A machine \in Machines :
         \E j \in Indices(machine) :
             Triple(machine, j)[3] >= 2 /\ Triple(machine, j)[2] >= 2

\* C3: after construction the collection returned by GetVertices() holds
\* every non-root state/vertex the builder created exactly once, and never
\* the root.
C3_EveryNonRootOnce ==
    /\ SM_Done =>
         /\ \A v \in 2..Len(sm.V) :
              Cardinality({k \in 1..Len(sm.vertices_) : sm.vertices_[k] = v}) = 1
         /\ \A k \in 1..Len(sm.vertices_) : sm.vertices_[k] \in 2..Len(sm.V)
    /\ ST_Done =>
         /\ \A v \in 2..Len(st.V) :
              Cardinality({k \in 1..Len(st.vertices_) : st.vertices_[k] = v}) = 1
         /\ \A k \in 1..Len(st.vertices_) : st.vertices_[k] \in 2..Len(st.V)

\* Both machines are finalized; the automaton has made a clone (more states
\* than symbols) and the tree has a vertex made by SplitEdge.
C3_Witness ==
    /\ ST_Done
    /\ Len(sm.V) > Len(string_) + 1
    /\ \E v \in 2..Len(st.V) : ~ST_IsLeaf(st, v)

\* C4: constructing either machine from the empty sequence yields zero
\* reportable states: the iterator GetRightContextIterator() returns is
\* not Valid().
C4_EmptyInput ==
    \A machine \in Machines :
        (string_ = <<>> /\ Done(machine)) =>
            /\ GetVertices(machine) = <<>>
            /\ ~Valid(GetRightContextIterator(machine))

\* Both constructions from the empty sequence have completed and an iterator
\* has been obtained from a machine.
C4_Witness ==
    /\ string_ = <<>>
    /\ pc = "Ready"
    /\ call.op = "GetRightContextIterator"
    /\ it.vertices_ \in Machines

\* Both machines are finalized (the tree last).
BothDone == ST_Done

\* The largest length * occurrences over the enumeration (0 when empty), as
\* the drivers compute it.
MaxProduct(machine) ==
    IF Indices(machine) = {} THEN 0
    ELSE CHOOSE b \in {Pair(machine, j)[1] * Pair(machine, j)[2] : j \in Indices(machine)} :
            \A j \in Indices(machine) : Pair(machine, j)[1] * Pair(machine, j)[2] <= b

Reverse(s) == [k \in 1..Len(s) |-> s[Len(s) + 1 - k]]

\* The (length, occurrences) pairs of a finalized tree value.
TreePair(t, k) ==
    <<ST_GetMaximalLength(t, t.vertices_[k]), ST_GetNumOfOccurrences(t, t.vertices_[k])>>

TreePairCount(t, pair) ==
    Cardinality({k \in 1..Len(t.vertices_) : TreePair(t, k) = pair})

\* C2 as stated: the multiset of (GetMaximalLength, GetNumOfOccurrences)
\* pairs enumerated by the automaton equals the multiset enumerated by the
\* tree built from the same input.
C2_SameMultiset ==
    BothDone =>
        \A pair \in Pairs("SuffixMachine") \cup Pairs("SuffixTree") :
            PairCount("SuffixMachine", pair) = PairCount("SuffixTree", pair)

\* C2 amended: for the same input the two enumerations agree on the maximum
\* of length * occurrences, and the multiset of pairs of the automaton equals
\* the multiset of pairs of the tree built from the reversed input.
C2_SameMaximumAndReversedMultiset ==
    BothDone =>
        /\ MaxProduct("SuffixMachine") = MaxProduct("SuffixTree")
        /\ LET rt == ST_Construct(Reverse(string_))
           IN  /\ Len(rt.vertices_) = Len(sm.vertices_)
               /\ \A pair \in Pairs("SuffixMachine") :
                    PairCount("SuffixMachine", pair) = TreePairCount(rt, pair)

\* Both machines are finalized for an input that is not its own reverse and
\* on which the automaton and the tree report different numbers of states.
C2_Witness ==
    /\ BothDone
    /\ Reverse(string_) # string_
    /\ Len(sm.vertices_) # Len(st.vertices_)
    /\ MaxProduct("SuffixMachine") >= 4

Triples(machine) == {Triple(machine, j) : j \in Indices(machine)}

\* The enumeration reports exactly the triples of S, each once.
ReportsExactly(machine, S) ==
    /\ Len(GetVertices(machine)) = Cardinality(S)
    /\ Triples(machine) = S

\* "aab", "aaaa" and "abcbc" with a = 1, b = 2, c = 3.
InputAAB == <<1, 1, 2>>
InputAAAA == <<1, 1, 1, 1>>
InputABCBC == <<1, 2, 3, 2, 3>>

\* C5 as stated: for "aab" the enumeration reports exactly "a" (1, 2),
\* "aa" (2, 1), "aab" (3, 1), "ab" (2, 1) and "b" (1, 1).
C5_AabFiveStates ==
    \A machine \in Machines :
        (string_ = InputAAB /\ Done(machine)) =>
            ReportsExactly(machine,
                {<<<<1>>, 1, 2>>, <<<<1, 1>>, 2, 1>>, <<<<1, 1, 2>>, 3, 1>>,
                 <<<<1, 2>>, 2, 1>>, <<<<2>>, 1, 1>>})

\* C5 amended: for "aab" the automaton reports exactly "a" (1, 2), "aa" (2, 1)
\* and "aab" (3, 1); the tree reports exactly "a" (1, 2), "aab" (3, 1),
\* "ab" (2, 1) and "b" (1, 1).
C5_AabStates ==
    /\ (string_ = InputAAB /\ SM_Done) =>
           ReportsExactly("SuffixMachine",
               {<<<<1>>, 1, 2>>, <<<<1, 1>>, 2, 1>>, <<<<1, 1, 2>>, 3, 1>>})
    /\ (string_ = InputAAB /\ ST_Done) =>
           ReportsExactly("SuffixTree",
               {<<<<1>>, 1, 2>>, <<<<1, 1, 2>>, 3, 1>>,
                <<<<1, 2>>, 2, 1>>, <<<<2>>, 1, 1>>})

\* Both machines are finalized for "aab".
C5_Witness == string_ = InputAAB /\ BothDone

\* C6: for "aaaa" the enumeration reports exactly "a" (1, 4), "aa" (2, 3),
\* "aaa" (3, 2) and "aaaa" (4, 1); the maximum of length * occurrences is 6
\* and both "aa" and "aaa" attain it.
C6_AaaaStates ==
    \A machine \in Machines :
        (string_ = InputAAAA /\ Done(machine)) =>
            /\ ReportsExactly(machine,
                   {<<<<1>>, 1, 4>>, <<<<1, 1>>, 2, 3>>,
                    <<<<1, 1, 1>>, 3, 2>>, <<<<1, 1, 1, 1>>, 4, 1>>})
            /\ MaxProduct(machine) = 6
            /\ {Triple(machine, j)[1] : j \in
                   {k \in Indices(machine) : Pair(machine, k)[1] * Pair(machine, k)[2] = 6}}
               = {<<1, 1>>, <<1, 1, 1>>}

\* Both machines are finalized for "aaaa".
C6_Witness == string_ = InputAAAA /\ BothDone

\* The vertices of the tree without children.
ST_Leaves == {v \in 1..Len(st.V) : ST_IsLeaf(st, v)}

ST_Terminals == {v \in 1..Len(st.V) : st.V[v].is_terminal}

\* Exactly one enumerated state/vertex has the representative substring w,
\* and it reports occ occurrences.
ReportsOccurrences(machine, w, occ) ==
    /\ Cardinality({j \in Indices(machine) : Triple(machine, j)[1] = w}) = 1
    /\ \A j \in Indices(machine) :
         Triple(machine, j)[1] = w => Triple(machine, j)[3] = occ

\* C7 as stated: for "abcbc" (n = 5) the automaton has at most 2n-1 = 9
\* states, the finalized tree has exactly n = 5 leaves, and the state/vertex
\* "bc" reports 2 occurrences.
C7_AbcbcFiveLeaves ==
    (string_ = InputABCBC /\ BothDone) =>
        /\ Len(sm.V) <= 2 * Len(string_) - 1
        /\ Cardinality(ST_Leaves) = Len(string_)
        /\ \A machine \in Machines : ReportsOccurrences(machine, <<2, 3>>, 2)

\* C7 amended: for "abcbc" (n = 5) the automaton has at most 2n-1 = 9 states,
\* the finalized tree has exactly 3 leaves ("abcbc", "bcbc", "cbc") and
\* exactly n = 5 terminal vertices (the suffixes "bc" and "c" end at
\* vertices that have a child), and the state/vertex "bc" reports 2
\* occurrences.
C7_AbcbcThreeLeaves ==
    (string_ = InputABCBC /\ BothDone) =>
        /\ Len(sm.V) <= 2 * Len(string_) - 1
        /\ {ST_GetString(st, v) : v \in ST_Leaves} =
               {<<1, 2, 3, 2, 3>>, <<2, 3, 2, 3>>, <<3, 2, 3>>}
        /\ Cardinality(ST_Leaves) = 3
        /\ Cardinality(ST_Terminals) = Len(string_)
        /\ \A machine \in Machines : ReportsOccurrences(machine, <<2, 3>>, 2)

\* Both machines are finalized for "abcbc".
C7_Witness == string_ = InputABCBC /\ BothDone

\* All substrings of s, the empty one included.
Substrings(s) ==
    {SubSeq(s, q[1], q[2]) :
        q \in {r \in (1..(Len(s) + 1)) \X (0..Len(s)) : r[1] <= r[2] + 1}}

\* Paths of the automaton from the root, as <<string read, state reached>>:
\* one more symbol along a transition.
SM_PathStep(F) ==
    {<<Append(q[1][1], q[2]), sm.V[q[1][2]].next[q[2]]>> :
        q \in {r \in F \X Symbols : sm.V[r[1][2]].next[r[2]] # NullV}}

\* The children of a tree vertex, whatever their keys.
ST_Children(v) == {st.V[v].children[c] : c \in Symbols} \ {NullV}

\* Paths of the tree from the root, as <<string read, vertex below,
\* distance to it>>: one more symbol of an edge label, into the edge of a
\* child when at a vertex and further down the edge otherwise.
ST_PathStep(F) ==
    {<<Append(q[1][1], ST_FirstChar(st, q[2])), q[2], ST_Length(st, q[2]) - 1>> :
        q \in {r \in F \X (1..Len(st.V)) : r[1][3] = 0 /\ r[2] \in ST_Children(r[1][2])}}
    \cup
    {<<Append(q[1], ST_GetChar(st, q[2], q[3])), q[2], q[3] - 1>> :
        q \in {r \in F : r[3] > 0}}

\* The paths of at most k more symbols that extend the paths of F.
RECURSIVE SM_Paths(_, _)
SM_Paths(F, k) ==
    IF k = 0 \/ F = {} THEN F ELSE F \cup SM_Paths(SM_PathStep(F), k - 1)

RECURSIVE ST_Paths(_, _)
ST_Paths(F, k) ==
    IF k = 0 \/ F = {} THEN F ELSE F \cup ST_Paths(ST_PathStep(F), k - 1)

SM_AllPaths == SM_Paths({<<<<>>, sm.root_>>}, Len(string_) + 1)

ST_AllPaths == ST_Paths({<<<<>>, st.root_, 0>>}, Len(string_) + 1)

\* C8: in either finalized machine the strings read along paths from the
\* root (transitions of the automaton; edge labels of the tree, stopping at a
\* vertex or inside an edge) are exactly the substrings of the input, and
\* each is read along exactly one path.
C8_ExactlyTheSubstrings ==
    /\ SM_Done =>
         /\ {q[1] : q \in SM_AllPaths} = Substrings(string_)
         /\ Cardinality(SM_AllPaths) = Cardinality(Substrings(string_))
    /\ ST_Done =>
         /\ {q[1] : q \in ST_AllPaths} = Substrings(string_)
         /\ Cardinality(ST_AllPaths) = Cardinality(Substrings(string_))

\* Both machines are finalized for an input of at least four symbols on
\* which the automaton made a clone and the tree split an edge.
C8_Witness ==
    /\ BothDone
    /\ Len(string_) >= 4
    /\ Len(sm.V) > Len(string_) + 1
    /\ \E v \in 2..Len(st.V) : ~ST_IsLeaf(st, v)

IteratorCalls == {"Next", "GetStateString", "GetMaximalLength", "GetNumOfOccurrences"}

\* C9 as stated: Next(), GetStateString(), GetMaximalLength() or
\* GetNumOfOccurrences() on an iterator that is not Valid() stops the program
\* at once: after the failed Assert no further step of the program runs, so
\* the loop counter of Assert is never incremented.
C9_InvalidAccessStopsAtOnce ==
    (pc = "Assert" /\ call.op \in IteratorCalls /\ ~Valid(it)) => x = 0

\* C10: an iterator obtained from GetRightContextIterator() over k states
\* and advanced j times with Next() is Valid() iff j < k; while valid it is
\* at element j of the collection and the accessors return the values of
\* that element. A default-constructed iterator is not Valid().
C10_ForwardWalk ==
    /\ (BothDone /\ it.vertices_ \in Machines) =>
         /\ Valid(it) <=> advanced < Len(GetVertices(it.vertices_))
         /\ Valid(it) => CurrentVertex(it) = GetVertices(it.vertices_)[advanced + 1]
         /\ (pc = "Ready" /\ call.op = "GetStateString") =>
                call.value = Triple(it.vertices_, advanced)[1]
         /\ (pc = "Ready" /\ call.op = "GetMaximalLength") =>
                call.value = Triple(it.vertices_, advanced)[2]
         /\ (pc = "Ready" /\ call.op = "GetNumOfOccurrences") =>
                call.value = Triple(it.vertices_, advanced)[3]
    /\ ~Valid(DefaultIterator)

\* A walk over a collection of at least three states has been advanced past
\* its last element.
C10_Witness ==
    /\ pc = "Ready"
    /\ it.vertices_ \in Machines
    /\ call.op = "Next"
    /\ advanced >= 3
    /\ advanced = Len(GetVertices(it.vertices_))
    /\ ~Valid(it)

\* What an iterator reads: the triple of its current element, or "invalid".
Observed(iter) ==
    IF Valid(iter)
    THEN <<GetStateString(iter), GetMaximalLength(iter), GetNumOfOccurrences(iter)>>
    ELSE "invalid"

\* What an iterator used alone reads after j calls of Next().
ObservedAlone(machine, j) ==
    IF j < Len(GetVertices(machine)) THEN Triple(machine, j) ELSE "invalid"

\* C11: after finalization no iterator operation writes to the shared
\* collections or to another iterator: a step changes at most one iterator
\* (Next() leaves its receiver unchanged), a fresh iterator starts at the
\* first element, and under every interleaving each of two iterators reads,
\* after its j-th advance, what an iterator used alone reads after j
\* advances.
C11_ReadersDoNotInterfere ==
    /\ [](BothDone =>
            /\ it.vertices_ \in Machines =>
                 Observed(it) = ObservedAlone(it.vertices_, advanced)
            /\ other.iter.vertices_ \in Machines =>
                 Observed(other.iter) = ObservedAlone(other.iter.vertices_, other.advanced)
            /\ (it.vertices_ \in Machines /\ advanced = 0) => it.index_ = 0
            /\ (other.iter.vertices_ \in Machines /\ other.advanced = 0) =>
                 other.iter.index_ = 0)
    /\ [][BothDone => (sm' = sm /\ st' = st)]_vars
    /\ [][BothDone => (it' = it \/ other' = other)]_vars

\* Two iterators over the same collection of at least three states stand at
\* different elements, the second one obtained by other = it.Next() and then
\* the first one advanced past it.
C11_Witness ==
    /\ pc = "Ready"
    /\ it.vertices_ \in Machines
    /\ other.iter.vertices_ = it.vertices_
    /\ Len(GetVertices(it.vertices_)) >= 3
    /\ other.advanced = 1
    /\ advanced = 3

\* Following suffix links from v reaches the root within fuel hops.
RECURSIVE SM_LinksReachRoot(_, _)
SM_LinksReachRoot(v, fuel) ==
    \/ v = sm.root_
    \/ /\ fuel > 0
       /\ v # NullV
       /\ SM_LinksReachRoot(sm.V[v].suffix_link, fuel - 1)

RECURSIVE ST_LinksReachRoot(_, _)
ST_LinksReachRoot(v, fuel) ==
    \/ v = st.root_
    \/ /\ fuel > 0
       /\ v # NullV
       /\ ST_LinksReachRoot(st.V[v].suffix_link, fuel - 1)

\* What keeps the loops of the builders finite between two symbols: the
\* suffix links of the automaton lead to the self-linked root, every edge of
\* the tree has at least one symbol (Go consumes at least one symbol per
\* edge), and the suffix links of the inner vertices of the tree lead to the
\* root.
WalksAreFinite ==
    /\ sm.V[sm.root_].suffix_link = sm.root_
    /\ \A v \in 1..Len(sm.V) : SM_LinksReachRoot(v, Len(sm.V))
    /\ \A v \in 2..Len(st.V) : ST_Length(st, v) >= 1
    /\ \A v \in 2..Len(st.V) :
         ~ST_IsLeaf(st, v) => ST_LinksReachRoot(v, Len(st.V))

\* The steps the two constructors still have to take: one per symbol and one
\* for Finally, for each machine.
Remaining ==
    IF pc = "SM_Build" THEN 2 * Len(string_) + 2 - i
    ELSE IF pc = "ST_Build" THEN Len(string_) + 1 - i
    ELSE 0

C13_LinkIsShorter ==
    /\ sm.V[sm.root_].suffix_link = sm.root_
    /\ \A v \in 1..Len(sm.V) :
         v # sm.root_ =>
           /\ sm.V[v].suffix_link \in 1..Len(sm.V)
           /\ sm.V[sm.V[v].suffix_link].length < sm.V[v].length

\* Build is between two symbols and has made a clone, whose suffix link and
\* the links into it are the ones the claim is about.
C13_Witness ==
    /\ pc = "SM_Build"
    /\ 0 < i /\ i < Len(string_)
    /\ Len(sm.V) > i + 1
    /\ \E v \in 2..Len(sm.V) : sm.V[v].suffix_link # sm.root_

\* C14: for every input of more than two symbols the automaton has at most
\* 2n-1 states, the root included, n being the number of symbols processed;
\* so it is for the whole input once Build has returned.
C14_AtMostTwoNMinusOne ==
    LET n == IF pc = "SM_Build" THEN i ELSE Len(string_)
    IN  n > 2 => Len(sm.V) <= 2 * n - 1

\* Build has returned for an input of more than two symbols on which the
\* automaton has exactly 2n-1 states.
C14_Witness ==
    /\ SM_Done
    /\ Len(string_) > 2
    /\ Len(sm.V) = 2 * Len(string_) - 1

\* The vertices of the tree that are neither the root nor a leaf.
ST_Inner == {v \in 1..Len(st.V) : v # st.root_ /\ ~ST_IsLeaf(st, v)}

\* C15 as stated: after every completed symbol step of SuffixTree::Build and
\* after Finally every vertex that is neither the root nor a leaf has at least
\* two children.
C15_InnerHaveTwoChildren ==
    \A v \in ST_Inner : Cardinality(ST_Children(v)) >= 2

\* C15: after every completed symbol step of SuffixTree::Build every vertex
\* that is neither the root nor a leaf has at least two children; after
\* Finally every such vertex has at least two children or is terminal.
C15_InnerBranchOrTerminal ==
    /\ pc = "ST_Build" => \A v \in ST_Inner : Cardinality(ST_Children(v)) >= 2
    /\ ST_Done => \A v \in ST_Inner :
                     \/ Cardinality(ST_Children(v)) >= 2
                     \/ st.V[v].is_terminal

\* Finally has split an edge for a suffix that ends inside it: the tree has a
\* terminal vertex with one child next to a vertex with two.
C15_Witness ==
    /\ ST_Done
    /\ \E v \in ST_Inner : Cardinality(ST_Children(v)) = 1 /\ st.V[v].is_terminal
    /\ \E v \in ST_Inner : Cardinality(ST_Children(v)) >= 2

\* The vertices of the subtree of v, v included: v and what the children
\* maps lead to from it.
RECURSIVE ST_Below(_)
ST_Below(S) ==
    LET T == S \cup UNION {ST_Children(u) : u \in S}
    IN  IF T = S THEN S ELSE ST_Below(T)

ST_Subtree(v) == ST_Below({v})

\* C16 as stated: after finalization the occurrence count of every vertex of
\* the tree is the number of leaves in its subtree.
C16_CountsLeaves ==
    ST_Done =>
      \A v \in 1..Len(st.V) :
        st.V[v].num_of_occurrences = Cardinality(ST_Subtree(v) \cap ST_Leaves)

\* C16: after finalization the occurrence count of every vertex of the tree is
\* the number of terminal vertices in its subtree, itself included: 1 for a
\* leaf, and for any other vertex the sum of its children's counts, plus one
\* if it is terminal.
C16_CountsTerminals ==
    ST_Done =>
      /\ \A v \in 1..Len(st.V) :
           st.V[v].num_of_occurrences =
             Cardinality(ST_Subtree(v) \cap ST_Terminals)
      /\ \A v \in ST_Subtree(st.root_) \cap ST_Leaves :
           v # st.root_ => st.V[v].is_terminal /\ st.V[v].num_of_occurrences = 1

\* The finished tree has a terminal vertex that is not a leaf, whose count is
\* one more than the number of leaves below it, and a vertex with two leaves
\* below it.
C16_Witness ==
    /\ ST_Done
    /\ \E v \in ST_Inner :
         /\ st.V[v].is_terminal
         /\ st.V[v].num_of_occurrences =
              Cardinality(ST_Subtree(v) \cap ST_Leaves) + 1
    /\ \E v \in ST_Inner : Cardinality(ST_Subtree(v) \cap ST_Leaves) >= 2

\* A step of Build that took the clone path: it made the state for the symbol
\* and a clone.
ClonePath(m, m2) == Len(m2.V) = Len(m.V) + 2

\* The clone is the last state made; its parent is p, the state at which the
\* walk that inserts transitions stopped.
CloneHasNextLength(m2) ==
    LET clone == Len(m2.V)
    IN  m2.V[clone].length = m2.V[m2.V[clone].parent].length + 1

\* C19: in both revisions of the automaton builder, a step of Build that takes
\* the clone path gives the clone the length of p plus one.
C19_CloneLengthInEveryRevision ==
    [][/\ ClonePath(sm, sm') => CloneHasNextLength(sm')
       /\ ClonePath(strings.m, strings.m') => CloneHasNextLength(strings.m')]_vars

\* C20: in the SuffixMachine of Strings.cpp, once finalized, the root is
\* marked terminal and is not among the enumerated vertices.
C20_RootNotExposed ==
    strings.pc = "Done" =>
      /\ strings.m.V[strings.m.root_].is_terminal
      /\ \A j \in 1..Len(strings.m.vertices_) :
           strings.m.vertices_[j] # strings.m.root_

NotDigit(c) == ~IsDigit(c)

\* The run has ended and the two output files hold the digits and the other
\* bytes of the first file, in its order, and the exit code is 0.
DS_SplitDone ==
    /\ ds.code = 0
    /\ ds.written[4] = SelectSeq(ds.file, IsDigit)
    /\ ds.written[5] = SelectSeq(ds.file, NotDigit)

\* C18 as stated: when all three files open and no read or write fails, the
\* splitter exits with code 0 having written the digits of the first file to
\* the second and all its other bytes to the third, in input order, the
\* bytes still buffered at the end of the input included.
C18_SplitsWhenFilesOpen ==
    (ds.pc = "exited" /\ ds.opened = {3, 4, 5} /\ ds.failed \cap {"read", "write"} = {})
      => DS_SplitDone

\* C18: when all three files open, all three buffers are allocated and no
\* read or write fails, the splitter exits with code 0 having written the
\* digits of the first file to the second and all its other bytes to the
\* third, in input order, the bytes still buffered at the end of the input
\* included.
C18_SplitsWhenNothingFails ==
    (ds.pc = "exited" /\ ds.opened = {3, 4, 5} /\ ds.failed = {})
      => DS_SplitDone

\* The splitter has exited without a failure, after a file with more digits
\* than a buffer holds and other bytes besides: the second file got bytes
\* from a flush of a full buffer and from the flush at the end.
C18_Witness ==
    /\ ds.pc = "exited"
    /\ ds.failed = {}
    /\ Len(ds.written[4]) > BSIZE
    /\ Len(ds.written[5]) > 0
    /\ Len(ds.written[4]) % BSIZE # 0


\* C17: for every input that run() reads, solution<PreflowPushAlgorithm> and
\* solution<MalhotraKumarMaheshwari> return the same value, so that the
\* assert of run() holds (and is reached: no exception leaves solution).
C17_SameResult ==
    fn.pc \notin {"read", "run", "assert"} =>
        ~fn.thrown /\ fn.result = fn.checked

\* Whether w is a suffix of s (the empty sequence is one).
IsSuffix(w, s) ==
    /\ Len(w) <= Len(s)
    /\ SubSeq(s, Len(s) - Len(w) + 1, Len(s)) = w

\* The strings of the class of an automaton state: those read from the root
\* to it.
SM_Class(v) == {q[1] : q \in {r \in SM_AllPaths : r[2] = v}}

\* C21: after finalization a non-root automaton state is marked terminal iff
\* some string of its class is a suffix of the whole input, and a non-root
\* tree vertex is marked terminal iff its root-to-vertex path label is a
\* suffix of the whole input.
C21_TerminalIffSuffix ==
    /\ SM_Done =>
         \A v \in 2..Len(sm.V) :
             sm.V[v].is_terminal <=> \E w \in SM_Class(v) : IsSuffix(w, string_)
    /\ ST_Done =>
         \A v \in 2..Len(st.V) :
             st.V[v].is_terminal <=> IsSuffix(ST_GetString(st, v), string_)

\* Both machines are finalized; each has a non-root state/vertex that is
\* marked and one that is not, and the tree has a marked vertex with a child.
C21_Witness ==
    /\ BothDone
    /\ \E v, u \in 2..Len(sm.V) : sm.V[v].is_terminal /\ ~sm.V[u].is_terminal
    /\ \E v, u \in 2..Len(st.V) :
         /\ st.V[v].is_terminal /\ ~ST_IsLeaf(st, v)
         /\ ~st.V[u].is_terminal

\* The call-by-call construction builds the tree that SuffixTree(string) builds.
UK_Agrees == uk.pc = "Done" => uk.t = ST_Construct(string_)

\* The last call of SplitEdge that returned was at a position inside an edge.
UK_SplitInside == uk.last.returned /\ ~IsVertex(uk.last.pos)

\* The vertices the last returned call of SplitEdge created.
UK_Created == (Len(uk.last.pre.V) + 1)..Len(uk.last.post.V)

\* The path label of every vertex that existed before the last returned call of
\* SplitEdge is what it was.
UK_LabelsKept ==
    \A y \in 2..Len(uk.last.pre.V) :
        ST_GetString(uk.last.post, y) = ST_GetString(uk.last.pre, y)

\* What the last returned call of SplitEdge did to v, the lower end of the edge.
UK_LowerHalf ==
    LET pre == uk.last.pre
        post == uk.last.post
        v == uk.last.pos.down_vertex
        w == uk.last.vertex
        split == pre.V[v].right_bound - uk.last.pos.distance_from_down_vertex
    IN  /\ w = Len(pre.V) + 1
        /\ post.V[w].right_bound = split
        /\ post.V[v].left_bound = split
        /\ post.V[v].right_bound = pre.V[v].right_bound
        /\ post.V[v].parent = w
        /\ post.V[w].children[pre.string_[split + 1]] = v

\* The upper half as the call leaves it when it made one vertex only.
UK_UpperHalf ==
    LET pre == uk.last.pre
        post == uk.last.post
        v == uk.last.pos.down_vertex
        u == pre.V[v].parent
        w == uk.last.vertex
    IN  /\ post.V[w].left_bound = pre.V[v].left_bound
        /\ post.V[w].parent = u
        /\ post.V[u].children[pre.string_[pre.V[v].left_bound + 1]] = w

\* The upper half when BuildSuffixLink(w) split the edge of w itself, once or
\* more: from y with range end hi up to u there are vertices of this call
\* only, each the parent of the next, their ranges adjoining down from left,
\* and the topmost is the entry of u.
RECURSIVE UK_UpperChain(_, _)
UK_UpperChain(y, hi) ==
    LET pre == uk.last.pre
        post == uk.last.post
        v == uk.last.pos.down_vertex
        u == pre.V[v].parent
    IN  /\ y \in UK_Created
        /\ post.V[y].right_bound = hi
        /\ post.V[y].left_bound < hi
        /\ IF post.V[y].parent = u
           THEN /\ post.V[y].left_bound = pre.V[v].left_bound
                /\ post.V[u].children[pre.string_[pre.V[v].left_bound + 1]] = y
           ELSE UK_UpperChain(post.V[y].parent, post.V[y].left_bound)

\* C22 as stated: SplitEdge at a position inside the edge of v with parent u
\* and range [left, right) leaves a new vertex w with range [left, split) and
\* parent u, v with range [split, right) and parent w, w as the entry of u
\* under the first symbol of the old edge, v as the entry of w under its new
\* first symbol, and every older path label as it was; at a vertex position it
\* creates nothing.
C22_AsStated ==
    uk.last.returned =>
        IF IsVertex(uk.last.pos)
        THEN uk.last.post = uk.last.pre
        ELSE UK_LowerHalf /\ UK_UpperHalf /\ UK_LabelsKept

\* C22: as stated, except that the new vertex w keeps range [left, split),
\* parent u and the entry of u only when BuildSuffixLink(w), run inside the
\* call, did not split the edge of w itself; when it did, w has a range
\* [split', split) and vertices made by the nested calls lie between u and w,
\* their ranges covering [left, split'), the topmost the entry of u.  The
\* path label of w is in both cases the label of the position.
C22_SplitEdge ==
    uk.last.returned =>
        IF IsVertex(uk.last.pos)
        THEN /\ uk.last.post = uk.last.pre
             /\ uk.last.vertex = uk.last.pos.down_vertex
        ELSE /\ UK_LowerHalf
             /\ UK_LabelsKept
             /\ UK_UpperChain(uk.last.vertex, ST_SplitBound(uk.last.pre, uk.last.pos))
             /\ ST_GetString(uk.last.post, uk.last.vertex)
                  = SubSeq(ST_GetString(uk.last.pre, uk.last.pos.down_vertex), 1,
                           Len(ST_GetString(uk.last.pre, uk.last.pos.down_vertex))
                             - uk.last.pos.distance_from_down_vertex)

\* A call inside an edge has returned whose BuildSuffixLink split the edge of
\* the vertex the call had just made more than once.
C22_Witness ==
    /\ UK_SplitInside
    /\ UK_LowerHalf
    /\ ~UK_UpperHalf
    /\ Cardinality(UK_Created) > 2

\* The vertices of the tree under construction for which BuildSuffixLink has
\* returned: it is the only writer of suffix_link.
UK_Linked == {v \in 2..Len(uk.t.V) : uk.t.V[v].suffix_link # NullV}

\* C23: in every tree the constructor passes through, a vertex for which
\* BuildSuffixLink has returned has a suffix link to the vertex whose path
\* label is its own without the first symbol, the root when it has one symbol;
\* between calls of SplitEdge that covers every internal vertex but the root.
C23_SuffixLinks ==
    /\ \A v \in UK_Linked :
         /\ ~ST_IsLeaf(uk.t, v)
         /\ ST_PathLabel(uk.t, uk.t.V[v].suffix_link)
              = Tail(ST_PathLabel(uk.t, v))
         /\ Len(ST_PathLabel(uk.t, v)) = 1 <=> uk.t.V[v].suffix_link = uk.t.root_
    /\ uk.stack = <<>> =>
         \A v \in 2..Len(uk.t.V) : ~ST_IsLeaf(uk.t, v) => v \in UK_Linked

\* A vertex got its link, after which an edge was split and a leaf inserted,
\* and its link leads to a vertex other than the root.
C23_Witness ==
    \E v \in UK_Linked :
        /\ uk.t.V[v].suffix_link # uk.t.root_
        /\ \E y, z \in (v + 1)..Len(uk.t.V) :
             /\ ~ST_IsLeaf(uk.t, y)
             /\ y # uk.t.V[v].suffix_link
             /\ ST_IsLeaf(uk.t, z)
             /\ z > y

\* The positions of s at which an occurrence of w ends.
EndPos(w, s) == {k \in Len(w)..Len(s) : SubSeq(s, k - Len(w) + 1, k) = w}

\* C24: in the finalized automaton two strings read from the root lead to the
\* same state exactly when they end at the same positions of the input.
C24_OneStatePerEndPosClass ==
    SM_Done =>
        \A q, r \in SM_AllPaths :
            q[2] = r[2] <=> EndPos(q[1], string_) = EndPos(r[1], string_)

\* A finalized automaton with a clone, in which two strings share a state and
\* a string and its own suffix lead to different states.
C24_Witness ==
    /\ SM_Done
    /\ Len(sm.V) > Len(string_) + 1
    /\ \E q, r \in SM_AllPaths : q[1] # r[1] /\ q[2] = r[2]
    /\ \E q, r \in SM_AllPaths :
         /\ q[1] # r[1]
         /\ IsSuffix(r[1], q[1])
         /\ q[2] # r[2]
         /\ r[2] # sm.root_

\* C25: at every position of either finalized machine's enumeration
\* GetStateString() has GetMaximalLength() symbols; the automaton's string is
\* read from the root to that state and no longer string is, and the tree's
\* string is read along the edges from the root down to that vertex.
C25_StringHasMaximalLength ==
    /\ \A machine \in Machines :
         Done(machine) =>
             \A j \in Indices(machine) :
                 Len(GetStateString(IteratorAt(machine, j)))
                   = GetMaximalLength(IteratorAt(machine, j))
    /\ SM_Done =>
         \A j \in Indices("SuffixMachine") :
             LET v == CurrentVertex(IteratorAt("SuffixMachine", j))
             IN  /\ SM_GetString(sm, v) \in SM_Class(v)
                 /\ \A w \in SM_Class(v) : Len(w) <= SM_GetMaximalLength(sm, v)
    /\ ST_Done =>
         \A j \in Indices("SuffixTree") :
             LET v == CurrentVertex(IteratorAt("SuffixTree", j))
             IN  <<ST_GetString(st, v), v, 0>> \in ST_AllPaths

\* Both machines are finalized; the automaton enumerates a state that several
\* strings lead to, the tree a vertex two edges below the root.
C25_Witness ==
    /\ BothDone
    /\ \E j \in Indices("SuffixMachine") :
         LET v == CurrentVertex(IteratorAt("SuffixMachine", j))
         IN  /\ sm.V[v].num_of_occurrences > 1
             /\ ~sm.V[v].is_terminal
             /\ Cardinality(SM_Class(v)) > 1
    /\ \E j \in Indices("SuffixTree") :
         LET v == CurrentVertex(IteratorAt("SuffixTree", j))
         IN  /\ st.V[v].parent # st.root_
             /\ ST_GetMaximalLength(st, v) > 2

\* The string the active point of the tree under construction spells: the path
\* label of down_vertex without its last distance_from_down_vertex symbols.
UK_ActiveString ==
    LET label == ST_PathLabel(uk.t, uk.t.last_not_leaf_.down_vertex)
    IN  SubSeq(label, 1,
               Len(label) - uk.t.last_not_leaf_.distance_from_down_vertex)

\* The lengths of the suffixes of p that occur in p at least twice; 0 is one.
RepeatedSuffixLengths(p) ==
    {l \in 0..Len(p) :
        Occurrences(p, SubSeq(p, Len(p) - l + 1, Len(p)), l) >= 2 \/ l = 0}

\* The longest suffix of p that occurs in p at least twice, <<>> if none does.
LongestRepeatedSuffix(p) ==
    LET l == CHOOSE k \in RepeatedSuffixLengths(p) :
                 \A j \in RepeatedSuffixLengths(p) : j <= k
    IN  SubSeq(p, Len(p) - l + 1, Len(p))

\* The loop of Build is between two symbols: i symbols have had their step.
UK_StepFinished == uk.pc = "Build" /\ ~uk.inner

\* The active point is at a vertex made by MakeLeaf.
UK_AtLeaf ==
    /\ IsVertex(uk.t.last_not_leaf_)
    /\ uk.t.last_not_leaf_.down_vertex # uk.t.root_
    /\ ST_IsLeaf(uk.t, uk.t.last_not_leaf_.down_vertex)

\* The index of the symbol CanGo compares c with inside an edge.
UK_ComparedIndex ==
    uk.t.V[uk.t.last_not_leaf_.down_vertex].right_bound
      - uk.t.last_not_leaf_.distance_from_down_vertex

\* C26: when Build has finished the steps for the first i symbols, the active
\* point spells the longest suffix of these i symbols that occurs among them
\* at least twice (the root if none); the active point is never at a leaf;
\* and the symbol CanGo compares with inside an edge, in the step for index i,
\* is at an index not greater than i.
C26_ActivePoint ==
    /\ UK_StepFinished =>
         UK_ActiveString = LongestRepeatedSuffix(SubSeq(string_, 1, uk.i))
    /\ ~UK_AtLeaf
    /\ uk.pc = "Build" /\ uk.i < Len(string_) /\ ~IsVertex(uk.t.last_not_leaf_) =>
         UK_ComparedIndex <= uk.i

\* A step has finished with the active point inside an edge, spelling a
\* suffix of two symbols or more, and CanGo is about to compare inside it.
C26_Witness ==
    /\ UK_StepFinished
    /\ uk.i < Len(string_)
    /\ ~IsVertex(uk.t.last_not_leaf_)
    /\ Len(UK_ActiveString) >= 2
    /\ Len(uk.t.V) >= 3

\* C27: main() calls the accessors of an iterator only while Valid() holds
\* for it, and so never enters Assert nor dereferences a null vertices_.
C27_MainCallsOnValidOnly ==
    /\ mn.call.valid
    /\ mn.pc \notin {"Assert", "crashed"}

\* The sum of the flows of the edges of a network that end at a vertex; the
\* two edges of a pair end at different vertices.
RECURSIVE FN_FlowInto(_, _, _)
FN_FlowInto(net, vertex, j) ==
    IF j > Len(net.edges_) THEN 0
    ELSE FN_FlowInto(net, vertex, j + 1)
           + (IF net.edges_[j].finishVertex_ = vertex
              THEN net.edges_[j].flow_ ELSE 0)

\* flow <= capacity on every edge, opposite flows on the two edges of a pair,
\* and no net flow at a vertex other than the source and the sink.
FN_Feasible(net) ==
    /\ \A j \in 1..Len(net.edges_) :
         /\ net.edges_[j].flow_ <= net.edges_[j].capacity_
         /\ net.edges_[j].flow_ + net.edges_[Xor1(j - 1) + 1].flow_ = 0
    /\ \A vertex \in DOMAIN net.lastEdge_ :
         vertex \notin {net.source_, net.sink_} =>
             FN_FlowInto(net, vertex, 1) = 0

\* run() of the class of the k-th algorithm object of the program.
FN_RunOf(k, A) == IF k = 1 THEN PPA_run(A) ELSE MKM_run(A)

\* C28: run() of either algorithm, called with a network loaded, leaves a
\* feasible flow in the network and the net flow into the sink in result_;
\* called on the object after storeNetwork, without a network, it reports
\* failure and leaves the object as it was.
C28_FeasibleFlow ==
    \A k \in 1..Len(fn.algorithms) :
        /\ checkNetwork(fn.algorithms[k])
        /\ FN_Feasible(fn.algorithms[k].network_)
        /\ fn.algorithms[k].result_
             = FN_FlowInto(fn.algorithms[k].network_,
                           fn.algorithms[k].network_.sink_, 1)
        /\ fn.stored[k] = fn.algorithms[k].network_
        /\ ~checkNetwork(FFA_storeNetwork(fn.algorithms[k]))
        /\ FN_RunOf(k, FFA_storeNetwork(fn.algorithms[k]))
             = FFA_storeNetwork(fn.algorithms[k])

\* Both algorithms have run on a network with an edge between two themes, and
\* left a flow that is not zero.
C28_Witness ==
    /\ Len(fn.algorithms) = 2
    /\ \A k \in 1..2 :
         /\ fn.algorithms[k].result_ > 0
         /\ Len(fn.algorithms[k].network_.edges_) >= 6
         /\ \E j \in 1..Len(fn.algorithms[k].network_.edges_) :
              /\ fn.algorithms[k].network_.edges_[j].capacity_ = INF
              /\ fn.algorithms[k].network_.edges_[j].flow_ > 0

\* How many times close was called on a descriptor.
DS_Closes(fd) == Cardinality({k \in 1..Len(ds.closed) : ds.closed[k] = fd})

\* C29: when the digit splitter has exited, close has been called exactly
\* once on each descriptor it opened and on no other descriptor.
C29_ClosesWhatItOpened ==
    ds.pc = "exited" =>
        /\ \A fd \in ds.opened : DS_Closes(fd) = 1
        /\ \A k \in 1..Len(ds.closed) : ds.closed[k] \in ds.opened

\* The value of a syntax tree under the usual rules, in 32 bits.
RECURSIVE CC_Value(_)
CC_Value(t) ==
    IF t[1] = "num" THEN CC_Word(t[2])
    ELSE IF t[1] = "var" THEN CC_Memory[CC_Word(CC_Lookup(t[2]))]
    ELSE IF t[1] = "neg" THEN CC_Sub(CC_Word(0), CC_Value(t[2]))
    ELSE IF t[1] = "pos" THEN CC_Value(t[2])
    ELSE IF t[1] = "add" THEN CC_Add(CC_Value(t[2]), CC_Value(t[3]))
    ELSE IF t[1] = "sub" THEN CC_Sub(CC_Value(t[2]), CC_Value(t[3]))
    ELSE CC_Mul(CC_Value(t[2]), CC_Value(t[3]))

\* C30: when the code compiled from an expression has run, R0 holds the value
\* of the expression under the usual rules, and the code has popped what it
\* pushed and nothing else.
C30_ValueInR0 ==
    cc.pc = "done" =>
        /\ cc.machine.returned
        /\ cc.machine.R[R0] = CC_Value(cc.tree)
        /\ cc.machine.stack = <<>>
        /\ ~cc.machine.underflow

====
